---- MODULE Spec2Model ----
(***************************************************************************)
(* WorkWeaver: the tiered summary scheduler (SummaryScheduler) with its    *)
(* collaborators ScreenshotComparer, SummaryStore and GeminiClient, the    *)
(* summary service's main() that owns it, and the ServiceManager that      *)
(* stops the service.                                                      *)
(*                                                                         *)
(* JavaScript runs one callback at a time, so every synchronous stretch of *)
(* a handler (from its entry, or from the resumption of an await, to the   *)
(* next await or the return) is one atomic step.                           *)
(***************************************************************************)
EXTENDS Integers, Sequences, FiniteSets, TLC

\* ------------------------------------------------------------------ bounds
MaxRuns == 3         \* pipeline runs counted in stats or in flight, all tiers
MaxRunsE2E == 6      \* the same, in the end-to-end scenario
MaxRunsProc == 2     \* the same, in the service process
MaxRunsIO == 3       \* the same, with collaborators that fail
MaxLive == 2         \* armed timers of one tier
MaxStoppers == 2     \* stop() calls suspended at the same time
MaxShots == 2        \* screenshots returned by one read
MaxRetries == 2      \* configured gemini.max_retries
MaxRetriesIO == 3    \* the same, where the retries themselves are examined
MaxList == 3         \* items of a list handed to a comparer predicate
MaxHistory == 2      \* history records handed to _detectTimeGap
MaxGapMinutes == 6   \* whole minutes between the last record and now
MaxMinute == 5       \* minutes of the day a timed behaviour runs through
MaxRunsClock == 3    \* pipeline runs of a timed behaviour
MaxClaims == 2       \* claims of one parsed Base record
MaxRepeats == 2      \* times one record is handed to the write-back
MaxSlot == 4         \* Base windows on the time grid of the timeline view
MaxSummaries == 2    \* Mid records handed to the timeline view
MaxFiles == 3        \* record files in today's directory of a tier
MaxCount == 3        \* the count and the skip handed to a read of the store
MaxFires == 3        \* timer fires counted that passed the entry guard, all tiers
MaxRunsTally == 2    \* pipeline runs counted in stats or in flight while fires are counted
MaxTasks == 3        \* capture tasks the screenshot scheduler begins
MaxDisplays == 2     \* displays captureAll() returns a capture of
MaxChildren == 2     \* child processes the service manager spawns, all services
MaxStops == 1        \* calls of stopService and stopAll, together
MaxPolls == 3        \* polls the window monitor counts, and polls awaiting osascript
MaxHistorySize == 2  \* options.maxHistorySize of the window monitor
MaxTodos == 3        \* tasks in todos.json

\* ------------------------------------------------------- program constants
baseMinutes == 2
recent10minCount == 6
behaviorRecentDays == 7
retryDelay == 2000   \* ms: (config.retry_delay || 2) * 1000

Tiers == {"2min", "10min", "1h"}
baseGranularity == "2min"

Max(a, b) == IF a >= b THEN a ELSE b

\* Math.ceil(a / b) for positive b
CeilDiv(a, b) == (a + b - 1) \div b

SeqsUpTo(S, n) == UNION {[1..k -> S] : k \in 0..n}

\* screenshot contents: two buffers are equal or they are not
Payloads == {"a", "b"}

\* what the screenshot reader can return: up to MaxShots buffers; buffers
\* count only as equal or different, so the first one is fixed
ShotLists == {s \in SeqsUpTo(Payloads, MaxShots) : Len(s) > 0 => s[1] = "a"}

\* the tier-specific content of a record: category_type, category_name and
\* subtask_name are the parallel claim arrays of a Base record ("task",
\* "behavior", "new_task" and "new_behavior" stand for the types '任务', '行为',
\* '新建任务' and '新建行为', "no-activity" for the name '屏幕无变化'),
\* activity_timeline is the timeline of a Mid record and time_distribution the
\* distribution of a Top record (each entry by its label and its minutes); a
\* field a record lacks is empty
NoContent ==
    [category_type |-> << >>, category_name |-> << >>, subtask_name |-> << >>,
     activity_timeline |-> << >>, time_distribution |-> << >>]

\* an answer that classifies the activity under a behavior
Classified ==
    [NoContent EXCEPT !.category_type = <<"behavior">>,
                      !.category_name = <<"reading">>]

\* an answer that proposes a behavior and a task with a subtask
Proposed ==
    [NoContent EXCEPT !.category_type = <<"new_behavior", "new_task">>,
                      !.category_name = <<"resting", "report">>,
                      !.subtask_name = <<"draft">>]

\* the texts the analysis service can answer with, by what _parseResponse
\* looks at: whether the trimmed text is valid JSON, whether the text
\* contains a fenced block (``` ... ```), whose content is valid JSON or not,
\* and the object the JSON encodes
Texts(answers) ==
    [whole : BOOLEAN, fence : {"none", "json", "junk"}, json : answers]

ResponseTexts ==
    Texts({[NoContent EXCEPT !.category_type = <<"task">>,
                             !.category_name = <<"work">>,
                             !.activity_timeline =
                                 <<[label |-> "work", minutes |-> 4]>>,
                             !.time_distribution =
                                 <<[label |-> "work", minutes |-> 4]>>]})

\* a JSON object as it stands, and prose
PlainTexts == {x \in ResponseTexts : x.fence = "none"}

NoText == [whole |-> FALSE, fence |-> "-", json |-> NoContent]

\* the ways one request can fail: generateContent rejects, or the text of
\* its response is empty
Faults == {"rejected", "empty"}

\* ------------------------------------------------------------------- state
VARIABLES
    enabled,        \* config.summary.granularity[t].enabled
    hasComparer,    \* options.screenshotComparer was given
    env,            \* what the collaborators can do: the lists the screenshot
                    \* reader returns, the values of _isAllowed(), the
                    \* outcomes of save(), the response texts, the request
                    \* faults, the outcomes of a directory read ("ok", "corrupt":
                    \* some record files are unreadable, "throws") and of the
                    \* taxonomy write-back, and the run budget of the behaviour
    isRunning,      \* SummaryScheduler.isRunning
    timer,          \* this._timer2min/_timer10min/_timer1h is non-null
    live,           \* number of armed setInterval timers calling _run<t>
    executing,      \* this._executing[t]
    stats,          \* this.stats[t] = {count, errors, skipped}
    runs,           \* the _run<t> invocations suspended in geminiClient.generate
    stoppers,       \* number of stop() invocations suspended in the polling loop
    store,          \* SummaryStore: the record files of each granularity
    day,            \* the calendar day of "now"
    proc,           \* the summary service process
    isStopping,     \* main(): isStopping
    killArmed,      \* ServiceManager.stopService: the 10 s timeout is armed
    last,           \* the handler that ran last, with its inputs and effects
    streak,         \* the Base windows with byte-identical evidence in a row
    begun,          \* per tier, the timer fires that passed the entry guard
    scheduler,      \* auto_screenshot Scheduler: its fields, the setInterval
                    \* timers armed (live), the capture tasks in flight and
                    \* the stop() calls suspended in the polling loop
    manager,        \* ServiceManager: processes, status[name].running, the
                    \* children spawned, the stopService and stopAll promises
    monitor,        \* ActiveWindowMonitor: its fields, the timers armed, the
                    \* polls awaiting osascript, the events emitted last
    editors,        \* the two processes that rewrite todos.json: the
                    \* TodoWriter of the summary service and the TodoStore
                    \* of the host app, each with the list it has read
    call,           \* the pure function applied last: its name, input and result
    todoData,       \* the files of todoDataDir: todos.json and behaviors.json
    _behaviorUsageCache,  \* PromptBuilder._behaviorUsageCache (kept where the
                    \* behaviour keeps time)
    clock,          \* where the behaviour keeps time (env.clocked): the minute
                    \* of "now" within the day and, for each tier, the minutes
                    \* at which its armed timers expire next, the timer the
                    \* handle names last
    unreadable      \* the positions, among the record files the last run's
                    \* read selected, of the files it could not read or decode

svars == <<isRunning, timer, live, executing, stats, runs, stoppers, store>>
config == <<enabled, hasComparer, env>>
host == <<proc, isStopping, killArmed>>
probe == <<call, unreadable, todoData, _behaviorUsageCache>>
apps == <<scheduler, manager, monitor, editors>>
vars == <<enabled, hasComparer, env, isRunning, timer, live, executing, stats,
          runs, stoppers, store, day, proc, isStopping, killArmed, last, streak, begun,
          scheduler, manager, monitor, editors,
          call, clock, todoData, _behaviorUsageCache,
          unreadable>>

\* the taxonomy context of a request: whether one was built, whether the
\* recent names were scanned for it (not taken from the cache), the recent
\* names it used and the behaviors it lists
NoContext == [built |-> FALSE, fresh |-> FALSE, names |-> {}, behaviors |-> << >>]

\* kind: the handler; tier: its tier; idle: the tier's flag was false at entry
\* (start/stop: isRunning at entry); allowed: _isAllowed(); began: a run passed
\* the entry guard; read: evidence or records were read; input: what was read;
\* saveOk: save() did not throw; sent: requests sent to the analysis service;
\* threw: a collaborator threw into the catch block;
\* text: the response text; todoOk: the taxonomy write-back did not throw;
\* delay: the back-off wait begun, in ms; error: the error generate() threw;
\* context: the taxonomy context of the request built
NoEvent == [kind |-> "init", tier |-> "-", idle |-> FALSE, allowed |-> FALSE,
            began |-> FALSE, read |-> FALSE, input |-> << >>, saveOk |-> FALSE,
            sent |-> 0, threw |-> FALSE, text |-> NoText,
            context |-> NoContext,
            todoOk |-> TRUE, delay |-> 0, error |-> "none"]

Event(kind, tier) == [NoEvent EXCEPT !.kind = kind, !.tier = tier]

NoStreak == [windows |-> 0, saved |-> 0, sent |-> 0]

NoCall == [fn |-> "-", arg |-> << >>, out |-> FALSE]

\* --------------------------------------------------- ScreenshotComparer
\* a faulty variant: a single screenshot counts as an unchanged screen
allIdentical_FromOne(screenshots) ==
    IF Len(screenshots) = 0
    THEN FALSE
    ELSE \A i \in 1..Len(screenshots) : screenshots[i] = screenshots[1]

\* Buffer.equals of every screenshot after the first against the first
allIdentical(screenshots) ==
    IF Len(screenshots) <= 1
    THEN FALSE
    ELSE \A i \in 2..Len(screenshots) : screenshots[i] = screenshots[1]

\* a faulty variant: one unchanged child is enough
allNoChange_Any(summaries) ==
    \E i \in 1..Len(summaries) : summaries[i].no_change = TRUE

\* a faulty variant: without the test for the empty list
allNoChange_EmptyIsTrue(summaries) ==
    \A i \in 1..Len(summaries) : summaries[i].no_change = TRUE

allNoChange(summaries) ==
    IF Len(summaries) = 0
    THEN FALSE
    ELSE \A i \in 1..Len(summaries) : summaries[i].no_change = TRUE

WithContent(record, content) ==
    [no_change |-> record.no_change, skip_reason |-> record.skip_reason,
     raw |-> record.raw, children |-> record.children,
     category_type |-> content.category_type,
     category_name |-> content.category_name,
     subtask_name |-> content.subtask_name,
     activity_timeline |-> content.activity_timeline,
     time_distribution |-> content.time_distribution]

buildNoChange2minRecord(screenshots) ==
    WithContent([no_change |-> TRUE, skip_reason |-> "identical",
                 raw |-> FALSE, children |-> Len(screenshots)],
                [NoContent EXCEPT !.category_type = <<"behavior">>,
                                  !.category_name = <<"no-activity">>,
                                  !.subtask_name = <<"">>])

\* a faulty variant: the child count is one short
buildNoChange10minRecord_OffByOne(recent2min) ==
    WithContent([no_change |-> TRUE, skip_reason |-> "children",
                 raw |-> FALSE, children |-> Len(recent2min) - 1],
                NoContent)

\* a faulty variant: the timeline lists the children instead of being empty
buildNoChange10minRecord_ListsChildren(recent2min) ==
    WithContent([no_change |-> TRUE, skip_reason |-> "children",
                 raw |-> FALSE, children |-> Len(recent2min)],
                [NoContent EXCEPT !.activity_timeline =
                     [i \in 1..Len(recent2min) |->
                         [label |-> "no-activity", minutes |-> baseMinutes]]])

buildNoChange10minRecord(recent2min) ==
    WithContent([no_change |-> TRUE, skip_reason |-> "children",
                 raw |-> FALSE, children |-> Len(recent2min)],
                NoContent)

buildNoChange1hRecord(recent10min) ==
    WithContent([no_change |-> TRUE, skip_reason |-> "children",
                 raw |-> FALSE, children |-> Len(recent10min)],
                NoContent)

\* ------------------------------------------------------------ SummaryStore

\* the record files in today's directory of a granularity, in name order
TodayFiles(granularity) ==
    SelectSeq(store[granularity], LAMBDA r : r.day = day)

\* the files getRecentSummaries selects before it reads them
\* (files.slice(-count): the last count files, and every file when count is 0)
RecentFiles(granularity, count) ==
    LET files == TodayFiles(granularity)
    IN  IF count = 0
        THEN files
        ELSE SubSeq(files, Max(1, Len(files) - count + 1), Len(files))

\* a faulty variant: the loop gives up at the first file it cannot read
ReadRecords_StopsAtFirstBad(files, bad) ==
    LET firstBad == IF \E i \in 1..Len(files) : i \in bad
                    THEN CHOOSE i \in 1..Len(files) :
                             i \in bad /\ \A j \in 1..(i - 1) : j \notin bad
                    ELSE Len(files) + 1
    IN  SubSeq(files, 1, firstBad - 1)

\* the read loop: a file whose read or JSON.parse throws (its position is in
\* bad) is logged and skipped, the others are pushed in order
ReadRecords(files, bad) ==
    LET RECURSIVE loop(_, _)
        loop(i, summaries) ==
            IF i > Len(files)
            THEN summaries
            ELSE loop(i + 1, IF i \in bad THEN summaries
                                          ELSE Append(summaries, files[i]))
    IN  loop(1, << >>)

\* a missing directory gives no files and so no records
getRecentSummaries(granularity, count, bad) ==
    ReadRecords(RecentFiles(granularity, count), bad)

\* a faulty variant: the skipped files are counted from the start
EarlierFiles_SkipsOldest(granularity, count, skip) ==
    LET files == TodayFiles(granularity)
        endIndex == Max(0, Len(files) - skip)
        startIndex == Max(0, endIndex - count)
    IN  SubSeq(files, skip + 1, skip + (endIndex - startIndex))

\* the files getEarlierSummaries selects: files.slice(startIndex, endIndex)
EarlierFiles(granularity, count, skip) ==
    LET files == TodayFiles(granularity)
        endIndex == Max(0, Len(files) - skip)
        startIndex == Max(0, endIndex - count)
    IN  SubSeq(files, startIndex + 1, endIndex)

getEarlierSummaries(granularity, count, skip, bad) ==
    ReadRecords(EarlierFiles(granularity, count, skip), bad)

\* the sets of unreadable positions a read of n files can meet
Unreadable(n) ==
    IF "corrupt" \in env.reads THEN SUBSET (1..n) ELSE {{}}

\* save(): the record is written under the directory of its timestamp's day
\* <date>/<granularity>/<HH-mm>.json: the file a timestamp names
SameFile(record, timestamp) ==
    record.day = timestamp.day /\ record.minute = timestamp.minute

\* writeFileSync replaces the file the timestamp names when there is one.
\* Where the behaviour keeps no time (env.clocked is false) every record has
\* minute 0 and each save is taken to name a file of its own
Saved(granularity, timestamp, data) ==
    LET file == [day |-> timestamp.day, minute |-> timestamp.minute,
                 no_change |-> data.no_change,
                 skip_reason |-> data.skip_reason, raw |-> data.raw,
                 children |-> data.children,
                 category_type |-> data.category_type,
                 category_name |-> data.category_name,
                 subtask_name |-> data.subtask_name,
                 activity_timeline |-> data.activity_timeline,
                 time_distribution |-> data.time_distribution]
        files == store[granularity]
    IN  [store EXCEPT ![granularity] =
            IF env.clocked
               /\ \E i \in 1..Len(files) : SameFile(files[i], timestamp)
            THEN [i \in 1..Len(files) |->
                     IF SameFile(files[i], timestamp) THEN file ELSE files[i]]
            ELSE Append(files, file)]

\* --------------------------------------------------------- _parseResponse
\* a faulty variant: the decoded object is copied field by field and the
\* timeline and the distribution are left out
_parseResponse_NoTimeline(responseText) ==
    LET valid == IF responseText.fence # "none"
                 THEN responseText.fence = "json"
                 ELSE responseText.whole
        content == [responseText.json EXCEPT !.activity_timeline = << >>,
                                             !.time_distribution = << >>]
    IN  IF valid
        THEN WithContent([no_change |-> FALSE, skip_reason |-> "",
                          raw |-> FALSE, children |-> 0], content)
                 @@ [decoded |-> IF responseText.fence # "none"
                                 THEN "fence" ELSE "text"]
        ELSE WithContent([no_change |-> FALSE, skip_reason |-> "",
                          raw |-> TRUE, children |-> 0], NoContent)
                 @@ [decoded |-> "none"]

\* decoded: the string JSON.parse decoded, the text or the fenced content
_parseResponse(responseText) ==
    LET jsonStr == IF responseText.fence # "none" THEN "fence" ELSE "text"
        valid == IF jsonStr = "fence"
                 THEN responseText.fence = "json"
                 ELSE responseText.whole
    IN  IF valid
        THEN WithContent([no_change |-> FALSE, skip_reason |-> "",
                          raw |-> FALSE, children |-> 0], responseText.json)
                 @@ [decoded |-> jsonStr]
        ELSE WithContent([no_change |-> FALSE, skip_reason |-> "",
                          raw |-> TRUE, children |-> 0], NoContent)
                 @@ [decoded |-> "none"]

\* ---------------------------------------------------- TodoWriter, taxonomy
\* a text is modelled without blanks around it, so trim() leaves it as it is
\* and only the empty (or blank) text "" is dropped
_normalizeToArray(value) == SelectSeq(value, LAMBDA v : v # "")

\* todos.json is a list of tasks [title, children], children a list of
\* subtask titles; behaviors.json is a list of behaviors [name, source]
HasTitle(list, title) == \E i \in 1..Len(list) : list[i].title = title

HasChild(task, title) == \E i \in 1..Len(task.children) : task.children[i] = title

_ensureTask(files, taskName, subtaskName) ==
    IF taskName = "" THEN files
    ELSE LET todos == IF HasTitle(files.todos, taskName)
                      THEN files.todos
                      ELSE Append(files.todos,
                                  [title |-> taskName, children |-> << >>])
             \* find(): the first task with the title
             k == CHOOSE i \in 1..Len(todos) :
                      /\ todos[i].title = taskName
                      /\ \A j \in 1..(i - 1) : todos[j].title # taskName
         IN  [files EXCEPT !.todos =
                 IF subtaskName # "" /\ ~HasChild(todos[k], subtaskName)
                 THEN [todos EXCEPT ![k].children = Append(@, subtaskName)]
                 ELSE todos]

_ensureBehavior(files, behaviorName) ==
    IF behaviorName = "" THEN files
    ELSE IF \E i \in 1..Len(files.behaviors) :
               files.behaviors[i].name = behaviorName
    THEN files
    ELSE [files EXCEPT !.behaviors =
             Append(@, [name |-> behaviorName, source |-> "ai"])]

_ensureSubtask(files, taskName, subtaskName) ==
    IF taskName = "" \/ subtaskName = "" THEN files
    ELSE IF ~HasTitle(files.todos, taskName) THEN files
    ELSE LET k == CHOOSE i \in 1..Len(files.todos) :
                      /\ files.todos[i].title = taskName
                      /\ \A j \in 1..(i - 1) : files.todos[j].title # taskName
         IN  IF HasChild(files.todos[k], subtaskName) THEN files
             ELSE [files EXCEPT !.todos[k].children = Append(@, subtaskName)]

\* processResponse(parsed), from the files as they are to the files it leaves
processResponse(files, parsed) ==
    LET types == _normalizeToArray(parsed.category_type)
        names == _normalizeToArray(parsed.category_name)
        subtasks == _normalizeToArray(parsed.subtask_name)
        count == IF Len(types) <= Len(names) THEN Len(types) ELSE Len(names)
        RECURSIVE loop(_, _)
        loop(i, f) ==
            IF i > count THEN f
            ELSE LET categoryType == types[i]
                     categoryName == names[i]
                     subtaskName == IF i <= Len(subtasks) THEN subtasks[i]
                                                          ELSE ""
                 IN  loop(i + 1,
                          IF categoryType = "new_task"
                          THEN _ensureTask(f, categoryName, subtaskName)
                          ELSE IF categoryType = "new_behavior"
                          THEN _ensureBehavior(f, categoryName)
                          ELSE IF categoryType = "task" /\ subtaskName # ""
                          THEN _ensureSubtask(f, categoryName, subtaskName)
                          ELSE f)
    IN  IF Len(types) = 0 \/ Len(names) = 0 THEN files ELSE loop(1, files)

\* ------------------------------------------- PromptBuilder, taxonomy context
_isBehaviorType(categoryType) ==
    categoryType \in {"behavior", "new_behavior"}

\* the names a Base record classifies as behaviors (a record of the model
\* has no legacy task_label)
_collectBehaviorNamesFromSummary(summary) ==
    LET names == _normalizeToArray(summary.category_name)
        types == _normalizeToArray(summary.category_type)
    IN  IF Len(names) = 0 THEN {}
        ELSE IF Len(types) = 0 THEN {names[i] : i \in 1..Len(names)}
        ELSE {names[i] : i \in {j \in 1..Len(names) :
                 j <= Len(types) /\ _isBehaviorType(types[j])}}

\* the scan of _getRecentClassifiedBehaviorNames: the Base records whose
\* timestamp is not older than behaviorRecentDays days
ScanRecent(files, now) ==
    UNION {_collectBehaviorNamesFromSummary(files[i]) :
             i \in {j \in 1..Len(files) :
                 \/ files[j].day > now.day - behaviorRecentDays
                 \/ /\ files[j].day = now.day - behaviorRecentDays
                    /\ files[j].minute >= now.minute}}

\* whether a call at this minute finds the cache unexpired (now < expiresAt,
\* expiresAt sixty seconds after the fill): surely within the minute of the
\* fill, surely not from the second minute on, and either way in between
Unexpired(cache, now) ==
    IF cache.expiresAt.day # now.day THEN {FALSE}
    ELSE IF now.minute < cache.expiresAt.minute THEN {TRUE}
    ELSE IF now.minute = cache.expiresAt.minute THEN BOOLEAN
    ELSE {FALSE}

_getRecentClassifiedBehaviorNames(cache, files, now, hit) ==
    IF hit THEN cache.names ELSE ScanRecent(files, now)

\* the behaviors of the context: user-authored ones, and machine-proposed ones
\* whose name is among the recent names
_splitBehaviorsByCategory(list, recentBehaviorNames) ==
    SelectSeq(list, LAMBDA b :
        /\ b.name # ""
        /\ (b.source # "ai" \/ b.name \in recentBehaviorNames))

\* the timestamp new Date() gives now
Now == [day |-> day, minute |-> clock.minute]

\* _buildTodoContextText(): behaviors.json is read anew; the recent names are
\* asked for only when it lists a behavior
_buildTodoContextText(hit) ==
    IF Len(todoData.behaviors) = 0
    THEN [NoContext EXCEPT !.built = TRUE]
    ELSE LET names == _getRecentClassifiedBehaviorNames(
                          _behaviorUsageCache, store["2min"], Now, hit)
         IN  [built |-> TRUE, fresh |-> ~hit, names |-> names,
              behaviors |-> _splitBehaviorsByCategory(todoData.behaviors, names)]

NoTodoData == [todos |-> << >>, behaviors |-> << >>]

\* ------------------------------------------------ the other components
\* the auto_screenshot Scheduler as its constructor leaves it
NewScheduler ==
    [isRunning |-> FALSE, isExecuting |-> FALSE, intervalId |-> FALSE,
     executeCount |-> 0, live |-> 0, stoppers |-> 0, tasks |-> {},
     started |-> 0]

\* the names ServiceManager keeps a child process for
Services == {"screenshot", "summary"}

\* the ServiceManager as its constructor leaves it: processes[name] is the
\* index of a child in children, 0 for null
NewManager ==
    [processes |-> [n \in Services |-> 0],
     running |-> [n \in Services |-> FALSE],
     children |-> << >>, stops |-> {}, alls |-> {}, calls |-> 0,
     settled |-> {}]

\* _lastWindow before the first poll
NoWindow == "null"

\* the ActiveWindowMonitor as its constructor leaves it
NewMonitor ==
    [_running |-> FALSE, _timer |-> FALSE, live |-> 0, _lastWindow |-> NoWindow,
     _history |-> << >>, _pollCount |-> 0, _errorCount |-> 0, polls |-> 0,
     emitted |-> {}]

\* neither process is inside a read-modify-write of todos.json
\* (pc: "idle" or "read", between its read and its write; todos: the list
\* read; op: the call; made and removed: the calls completed that added and
\* that deleted a task)
NoEditors ==
    LET idle == [pc |-> "idle", todos |-> << >>,
                 op |-> [fn |-> "-", title |-> "", child |-> ""],
                 made |-> {}, removed |-> {}]
    IN  [writer |-> idle, store |-> idle]

\* ------------------------------------------------------------ construction
\* the scheduler as its constructor leaves it, the store empty
Constructed ==
    /\ isRunning = FALSE
    /\ timer = [t \in Tiers |-> FALSE]
    /\ live = [t \in Tiers |-> 0]
    /\ executing = [t \in Tiers |-> FALSE]
    /\ stats = [t \in Tiers |-> [count |-> 0, errors |-> 0, skipped |-> 0]]
    /\ runs = {}
    /\ stoppers = 0
    /\ store = [t \in Tiers |-> << >>]
    /\ day = 0
    /\ isStopping = FALSE
    /\ killArmed = FALSE
    /\ last = NoEvent
    /\ streak = NoStreak
    /\ begun = [t \in Tiers |-> 0]
    /\ scheduler = NewScheduler
    /\ manager = NewManager
    /\ monitor = NewMonitor
    /\ editors = NoEditors
    /\ unreadable = {}
    /\ _behaviorUsageCache = [expiresAt |-> [day |-> -1, minute |-> 0],
                              names |-> {}]
    /\ clock = [minute |-> 0, due |-> [t \in Tiers |-> << >>]]

\* a scheduler with the collaborators main() gives it and the default
\* configuration (every granularity enabled), embedded by a host that may call
\* start() and stop() at any time
\* the collaborators of a plain run: screenshots of any kind, the gate and
\* the store say yes, no analysis is allowed (budget 0), answers are plain,
\* a failing request is rejected, files read well, the write-back succeeds
Plain ==
    [shots |-> ShotLists, gates |-> {TRUE}, saves |-> {TRUE}, budget |-> 0,
     track |-> FALSE, texts |-> PlainTexts, faults |-> {"rejected"},
     reads |-> {"ok"}, todo |-> {TRUE}, max_retries |-> MaxRetries,
     clocked |-> FALSE, tally |-> FALSE]

\* the program after construction: the tiers the configuration enables, the
\* collaborators e, the process state p, the taxonomy files and the call
\* under observation
Begin(tiers, e, p, files, calls) ==
    /\ enabled \in tiers
    /\ hasComparer = TRUE
    /\ env = e
    /\ proc = p
    /\ Constructed
    /\ todoData \in files
    /\ call \in calls

Init ==
    Begin({[t \in Tiers |-> TRUE]},
          [Plain EXCEPT !.gates = BOOLEAN, !.saves = BOOLEAN, !.budget = MaxRuns],
          "embedded", {NoTodoData}, {NoCall})

\* ------------------------------------------------------------------ time
\* the period of a tier's setInterval timer, in minutes
IntervalMinutes(t) ==
    CASE t = "2min" -> baseMinutes
      [] t = "10min" -> 10
      [] t = "1h" -> 60

\* a minute passes; a timer that expires in this minute calls its pipeline
\* first
Tick ==
    /\ env.clocked
    /\ clock.minute < MaxMinute
    /\ \A t \in Tiers : \A i \in 1..Len(clock.due[t]) :
           clock.due[t][i] # clock.minute
    /\ clock' = [clock EXCEPT !.minute = @ + 1]
    /\ last' = Event("tick", "-")
    /\ UNCHANGED <<config, probe, svars, host, day, streak, begun, apps>>

\* ---------------------------------------------------------------- start()
start ==
    /\ IF isRunning
       THEN UNCHANGED <<isRunning, timer, live>>
       ELSE /\ \A t \in Tiers : enabled[t] => live[t] < MaxLive
            /\ isRunning' = TRUE
            /\ timer' = [t \in Tiers |-> IF enabled[t] THEN TRUE ELSE timer[t]]
            /\ live' = [t \in Tiers |-> IF enabled[t] THEN live[t] + 1 ELSE live[t]]
    /\ clock' = IF isRunning \/ ~env.clocked
                THEN clock
                ELSE [clock EXCEPT !.due = [t \in Tiers |->
                         IF enabled[t]
                         THEN Append(@[t], clock.minute + IntervalMinutes(t))
                         ELSE @[t]]]
    /\ last' = [Event("start", "-") EXCEPT !.idle = isRunning]
    /\ UNCHANGED <<config, probe, executing, stats, runs, stoppers, store, day, streak, begun, apps>>

\* ----------------------------------------------------------------- stop()
\* the loop condition of stop(), negated: no tier is executing
Drained == \A t \in Tiers : ~executing[t]

\* stop() from its call to its first await, or to its return
stop ==
    /\ IF ~isRunning
       THEN /\ last' = Event("stopReturn", "-")
            /\ UNCHANGED <<isRunning, timer, live, stoppers>>
       ELSE /\ timer' = [t \in Tiers |-> FALSE]
            /\ live' = [t \in Tiers |-> IF timer[t] THEN live[t] - 1 ELSE live[t]]
            /\ IF Drained
               THEN /\ isRunning' = FALSE
                    /\ last' = [Event("stopReturn", "-") EXCEPT !.idle = TRUE]
                    /\ UNCHANGED stoppers
               ELSE /\ stoppers < MaxStoppers
                    /\ stoppers' = stoppers + 1
                    /\ last' = [Event("stopCall", "-") EXCEPT !.idle = TRUE]
                    /\ UNCHANGED isRunning
    /\ clock' = IF isRunning /\ env.clocked
                THEN [clock EXCEPT !.due = [t \in Tiers |->
                         IF timer[t] THEN SubSeq(@[t], 1, Len(@[t]) - 1)
                                     ELSE @[t]]]
                ELSE clock
    /\ UNCHANGED <<config, probe, executing, stats, runs, store, day, streak, begun, apps>>

\* a suspended stop() wakes from its 100 ms sleep and finds the loop condition
\* false (while it is true the wake-up changes nothing and sleeps again)
stopPoll ==
    /\ stoppers > 0
    /\ Drained
    /\ isRunning' = FALSE
    /\ stoppers' = stoppers - 1
    /\ last' = Event("stopWake", "-")
    /\ UNCHANGED <<config, probe, timer, live, executing, stats, runs, store, day, clock, streak, begun, apps>>

\* ------------------------------------------------------- pipeline fragments
\* faulty variants of the entry guard: without the flag, without the gate
EntryGuard_NoMutex(t, allowed) == allowed

EntryGuard_IgnoreAllowed(t, allowed) == ~executing[t]

\* the entry guard of _run2min/_run10min/_run1h
EntryGuard(t, allowed) == ~executing[t] /\ allowed

Bump(t, field) == [stats EXCEPT ![t][field] = @ + 1]

\* faulty variants of the catch block: the failure is counted as a skip; the
\* failure is counted on the Base tier whichever tier failed
Catch_AsSkipped(t) == Bump(t, "skipped")

Catch_OnBase(t) == Bump("2min", "errors")

\* the catch block of a run of tier t
Catch(t) == Bump(t, "errors")

FireEvent(t, allowed) ==
    [Event("fire", t) EXCEPT !.idle = ~executing[t], !.allowed = allowed]

\* the finally block of tier t
Finally(t) == executing' = [executing EXCEPT ![t] = FALSE]

\* a faulty variant: a fire turned away at the guard is counted as skipped
ReturnEarly_CountsSkip(t, allowed) ==
    /\ last' = FireEvent(t, allowed)
    /\ stats' = Bump(t, "skipped")
    /\ UNCHANGED <<executing, runs, store>>

\* return from the guard: nothing is touched
ReturnEarly(t, allowed) ==
    /\ last' = FireEvent(t, allowed)
    /\ UNCHANGED <<executing, stats, runs, store>>

\* a faulty variant: a run without input is counted as an error
EndQuietly_CountsError(t, allowed, didRead, input) ==
    /\ Finally(t)
    /\ last' = [FireEvent(t, allowed) EXCEPT !.began = TRUE, !.read = didRead,
                                              !.input = input]
    /\ stats' = Bump(t, "errors")
    /\ UNCHANGED <<runs, store>>

\* a run that ends in its synchronous part without persisting or counting
EndQuietly(t, allowed, didRead, input) ==
    /\ Finally(t)
    /\ last' = [FireEvent(t, allowed) EXCEPT !.began = TRUE, !.read = didRead,
                                              !.input = input]
    /\ UNCHANGED <<stats, runs, store>>

\* a faulty variant: the no-change branch counts a summary instead of a skip
SkipWith_AsCount(t, allowed, input, record) ==
    \E saveOk \in env.saves :
        /\ IF saveOk
           THEN /\ store' = Saved(t, Now, record)
                /\ stats' = Bump(t, "count")
           ELSE /\ store' = store
                /\ stats' = Catch(t)
        /\ Finally(t)
        /\ last' = [FireEvent(t, allowed) EXCEPT !.began = TRUE, !.read = TRUE,
                                                  !.input = input, !.saveOk = saveOk]
        /\ UNCHANGED runs

\* the no-change branch: save the template record and count a skip; a save
\* that throws lands in the catch block instead
SkipWith(t, allowed, input, record) ==
    \E saveOk \in env.saves :
        /\ IF saveOk
           THEN /\ store' = Saved(t, Now, record)
                /\ stats' = Bump(t, "skipped")
           ELSE /\ store' = store
                /\ stats' = Catch(t)
        /\ Finally(t)
        /\ last' = [FireEvent(t, allowed) EXCEPT !.began = TRUE, !.read = TRUE,
                                                  !.input = input, !.saveOk = saveOk]
        /\ UNCHANGED runs

\* a throw in the synchronous part of a run (readdirSync on a directory that
\* cannot be listed): catch block, then finally
Throws(t, allowed, didRead, input) ==
    /\ Finally(t)
    /\ last' = [FireEvent(t, allowed) EXCEPT !.began = TRUE, !.read = didRead,
                                              !.input = input, !.threw = TRUE]
    /\ stats' = Catch(t)
    /\ UNCHANGED <<runs, store>>

\* whether a directory listing of this run throws
Listing == IF "throws" \in env.reads THEN BOOLEAN ELSE {FALSE}

\* the analysis branch up to the first await: generate() sends attempt 1
CallGemini(t, allowed, input) ==
    /\ executing' = [executing EXCEPT ![t] = TRUE]
    /\ runs' = runs \cup {[tier |-> t,
                           id |-> CHOOSE i \in 1..(env.budget + 1) :
                                      \A r \in runs : r.tier = t => r.id # i,
                           pc |-> "request",
                           attempt |-> 1, tsDay |-> day, tsMinute |-> clock.minute,
                           children |-> IF t = baseGranularity
                                        THEN << >> ELSE input,
                           lastError |-> "none"]}
    /\ \E hit \in (IF env.clocked THEN Unexpired(_behaviorUsageCache, Now)
                                   ELSE {FALSE}) :
          last' = [FireEvent(t, allowed) EXCEPT
                       !.began = TRUE, !.read = TRUE, !.input = input,
                       !.sent = 1, !.context = _buildTodoContextText(hit)]
    /\ UNCHANGED <<stats, store>>

\* the analysis branch: the history read may throw before the request is sent
Analyse(t, allowed, input) ==
    \E threw \in Listing :
        IF threw
        THEN Throws(t, allowed, TRUE, input)
        ELSE CallGemini(t, allowed, input)

\* --------------------------------------------------------------- _run2min
_run2min ==
    /\ unreadable' = {}
    /\ \E allowed \in env.gates :
        IF ~EntryGuard("2min", allowed)
        THEN ReturnEarly("2min", allowed)
        ELSE IF ~enabled[baseGranularity]
        THEN EndQuietly("2min", allowed, FALSE, << >>)
        ELSE \E threw \in Listing :
            IF threw
            THEN Throws("2min", allowed, FALSE, << >>)
            ELSE \E screenshots \in env.shots :
                IF Len(screenshots) = 0
                THEN EndQuietly("2min", allowed, TRUE, screenshots)
                ELSE IF hasComparer /\ allIdentical(screenshots)
                THEN SkipWith("2min", allowed, screenshots,
                              buildNoChange2minRecord(screenshots))
                ELSE Analyse("2min", allowed, screenshots)

\* the part of _run10min and _run1h after the read of the child records
Aggregate(t, allowed, recent, bad, record) ==
    /\ IF Len(recent) = 0
       THEN EndQuietly(t, allowed, TRUE, recent)
       ELSE IF hasComparer /\ allNoChange(recent)
       THEN SkipWith(t, allowed, recent, record)
       ELSE Analyse(t, allowed, recent)
    /\ unreadable' = bad

\* -------------------------------------------------------------- _run10min
_run10min ==
    \E allowed \in env.gates :
        IF ~EntryGuard("10min", allowed)
        THEN ReturnEarly("10min", allowed) /\ unreadable' = {}
        ELSE \E threw \in Listing :
            IF threw
            THEN Throws("10min", allowed, FALSE, << >>) /\ unreadable' = {}
            ELSE LET recentCount == Max(1, CeilDiv(10, baseMinutes))
                     files == RecentFiles(baseGranularity, recentCount)
                 IN  \E bad \in Unreadable(Len(files)) :
                     LET recent2min ==
                             getRecentSummaries(baseGranularity, recentCount, bad)
                     IN  Aggregate("10min", allowed, recent2min, bad,
                                   buildNoChange10minRecord(recent2min))

\* ----------------------------------------------------------------- _run1h
_run1h ==
    \E allowed \in env.gates :
        IF ~EntryGuard("1h", allowed)
        THEN ReturnEarly("1h", allowed) /\ unreadable' = {}
        ELSE \E threw \in Listing :
            IF threw
            THEN Throws("1h", allowed, FALSE, << >>) /\ unreadable' = {}
            ELSE LET recentCount == recent10minCount
                     files == RecentFiles("10min", recentCount)
                 IN  \E bad \in Unreadable(Len(files)) :
                     LET recent10min ==
                             getRecentSummaries("10min", recentCount, bad)
                     IN  Aggregate("1h", allowed, recent10min, bad,
                                   buildNoChange1hRecord(recent10min))

\* a repeating timer armed by start() expires and calls its tier's pipeline.
\* The fire is held back when the runs counted in stats or in flight, or the
\* fires counted in begun, have reached their bound; streak counts the Base
\* windows in a row whose evidence was two or more byte-identical
\* screenshots; a scan of behaviors the request made is cached for sixty
\* seconds
TimerFire(t) ==
    /\ live[t] > 0
    /\ LET n(tier) == stats[tier].count + stats[tier].errors + stats[tier].skipped
       IN  n("2min") + n("10min") + n("1h") + Cardinality(runs) < env.budget
    /\ env.tally => begun["2min"] + begun["10min"] + begun["1h"] < MaxFires
    /\ CASE t = "2min" -> _run2min
         [] t = "10min" -> _run10min
         [] t = "1h" -> _run1h
    /\ streak' =
          IF ~env.track \/ last'.tier # "2min" \/ ~last'.read
          THEN streak
          ELSE IF Len(last'.input) >= 2
                  /\ \A i \in 1..Len(last'.input) : last'.input[i] = last'.input[1]
          THEN [windows |-> streak.windows + 1,
                saved |-> streak.saved
                          + (IF Len(store'["2min"]) > Len(store["2min"])
                             THEN 1 ELSE 0),
                sent |-> streak.sent + last'.sent]
          ELSE NoStreak
    /\ begun' = IF env.tally /\ last'.began
                THEN [begun EXCEPT ![t] = @ + 1]
                ELSE begun
    /\ _behaviorUsageCache' =
          IF env.clocked /\ last'.context.fresh
          THEN [expiresAt |-> [day |-> day, minute |-> clock.minute + 1],
                names |-> last'.context.names]
          ELSE _behaviorUsageCache
    /\ IF env.clocked
       THEN \E i \in 1..Len(clock.due[t]) :
               /\ clock.due[t][i] = clock.minute
               /\ clock' = [clock EXCEPT !.due[t][i] = @ + IntervalMinutes(t)]
       ELSE UNCHANGED clock
    /\ UNCHANGED <<config, call, todoData, isRunning, timer, live, stoppers, day,
                   apps>>

\* ------------------------------------------- GeminiClient.generate, resumed
\* a faulty variant: the counter is raised before the record is saved
Tally_CountBeforeSave(t, ok, saveOk) ==
    IF ok /\ saveOk
    THEN Bump(t, "count")
    ELSE IF ok
    THEN [stats EXCEPT ![t].count = @ + 1, ![t].errors = @ + 1]
    ELSE Catch(t)

\* the counters after a run that came back from generate(): count++ follows
\* the save, a throw of generate() or of save() lands in the catch block
Tally(t, ok, saveOk) ==
    IF ok /\ saveOk THEN Bump(t, "count") ELSE Catch(t)

\* a faulty variant: a throw of the taxonomy write-back reaches the catch block
WriteBack_Escapes(t, counters, todoOk) ==
    IF todoOk THEN counters ELSE [counters EXCEPT ![t].errors = @ + 1]

\* todoWriter.processResponse(parsed) inside its own try/catch: whether it
\* throws or not, the counters stay as they are
WriteBack(t, counters, todoOk) == counters

\* the rest of a run after generate() returned or threw: parse, save, count,
\* and for the Base tier the taxonomy write-back
Settle(r, ok, responseText, err) ==
    LET t == r.tier IN
    /\ \E saveOk \in (IF ok THEN env.saves ELSE {FALSE}) :
       \E todoOk \in (IF ok /\ saveOk /\ t = "2min" THEN env.todo ELSE {TRUE}) :
          /\ store' = IF ok /\ saveOk
                      THEN Saved(t, [day |-> r.tsDay, minute |-> r.tsMinute],
                                 _parseResponse(responseText))
                      ELSE store
          /\ stats' = WriteBack(t, Tally(t, ok, saveOk), todoOk)
          /\ todoData' = IF ok /\ saveOk /\ todoOk /\ t = "2min"
                          THEN processResponse(todoData,
                                               _parseResponse(responseText))
                          ELSE todoData
          /\ last' = [Event(IF ok THEN "response" ELSE "failure", t)
                        EXCEPT !.saveOk = saveOk, !.text = responseText,
                               !.todoOk = todoOk, !.error = err,
                               !.threw = ~(ok /\ saveOk)]
    /\ Finally(t)
    /\ runs' = runs \ {r}

\* generateContent resolves with a non-empty text
RequestReturns(r) ==
    /\ r \in runs
    /\ r.pc = "request"
    /\ \E responseText \in env.texts : Settle(r, TRUE, responseText, "none")
    /\ UNCHANGED <<config, call, unreadable, _behaviorUsageCache, isRunning,
                   timer, live, stoppers, day, clock, streak, begun, apps>>

\* this.maxRetries, from the configuration
maxRetries == env.max_retries

\* a faulty variant: one attempt more than configured
MayRetry_OneMore(r) == r.attempt <= maxRetries

\* the loop of generate() has an attempt left after this one
MayRetry(r) == r.attempt < maxRetries

\* generateContent rejects, or resolves with an empty text: the error is kept
\* in lastError; generate() sleeps retryDelay * attempt and tries again, or
\* after its last attempt throws lastError
RequestFails(r) ==
    /\ r \in runs
    /\ r.pc = "request"
    /\ \E err \in env.faults :
          IF MayRetry(r)
          THEN /\ runs' = (runs \ {r})
                          \cup {[r EXCEPT !.pc = "sleep", !.lastError = err]}
               /\ last' = [Event("retry", r.tier)
                             EXCEPT !.delay = retryDelay * r.attempt,
                                    !.error = err]
               /\ UNCHANGED <<executing, stats, store>>
          ELSE Settle(r, FALSE, NoText, err)
    /\ UNCHANGED <<config, probe, isRunning, timer, live, stoppers, day, clock, streak, begun, apps>>

\* the back-off sleep ends and the next attempt is sent
SleepEnds(r) ==
    /\ r \in runs
    /\ r.pc = "sleep"
    /\ runs' = (runs \ {r}) \cup {[r EXCEPT !.pc = "request", !.attempt = @ + 1]}
    /\ last' = [Event("attempt", r.tier) EXCEPT !.sent = 1]
    /\ UNCHANGED <<config, probe, isRunning, timer, live, executing, stats, stoppers,
                   store, day, clock, streak, begun, apps>>

\* ------------------------------------------------- the scheduler, embedded
HostStart == start /\ UNCHANGED host
HostStop == stop /\ UNCHANGED host
StopWakes == stopPoll /\ UNCHANGED host
Fire == \E t \in Tiers : TimerFire(t) /\ UNCHANGED host
Returns == \E r \in runs : RequestReturns(r) /\ UNCHANGED host
Fails == \E r \in runs : RequestFails(r) /\ UNCHANGED host
Retries == \E r \in runs : SleepEnds(r) /\ UNCHANGED host

Next ==
    \/ HostStart
    \/ HostStop
    \/ StopWakes
    \/ Fire
    \/ Returns
    \/ Fails
    \/ Retries

Spec == Init /\ [][Next]_vars

\* the same scheduler with its timer fires counted: begun[t] is the number of
\* calls of _run<t> that got past the entry guard
SpecTally ==
    /\ Begin({[t \in Tiers |-> TRUE]},
             [Plain EXCEPT !.gates = BOOLEAN, !.saves = BOOLEAN,
                           !.budget = MaxRunsTally, !.tally = TRUE],
             "embedded", {NoTodoData}, {NoCall})
    /\ [][Next]_vars

\* the scheduler with collaborators that fail: requests that are rejected or
\* come back empty, responses of every shape, saves and taxonomy write-backs
\* that throw, record files that cannot be read, directories that cannot be
\* listed
\* the host starts the scheduler and lets it run
SpecIO ==
    /\ Begin({[t \in Tiers |-> TRUE]},
             [Plain EXCEPT !.saves = BOOLEAN, !.budget = MaxRunsIO,
                           !.texts = ResponseTexts, !.faults = Faults,
                           !.reads = {"ok", "corrupt", "throws"},
                           !.todo = BOOLEAN, !.max_retries = MaxRetriesIO],
             "embedded", {NoTodoData}, {NoCall})
    /\ [][\/ HostStart
          \/ Fire
          \/ Returns
          \/ Fails
          \/ Retries]_vars

\* ------------------------------------------------ the scheduler, kept time
\* the embedded scheduler with the minutes of the day counted: a timer
\* expires one period after start() armed it and every period from then on
\* (a callback late by less than a minute is taken as on time)
SpecClock ==
    /\ Begin({[t \in Tiers |-> TRUE]},
             [Plain EXCEPT
                 !.budget = MaxRunsClock,
                 !.texts = {x \in Texts({Classified, Proposed}) :
                               x.fence = "none"},
                 !.clocked = TRUE],
             "embedded",
             {[todos |-> << >>,
               behaviors |-> <<[name |-> "focus", source |-> "user"],
                               [name |-> "reading", source |-> "ai"]>>]},
             {NoCall})
    /\ [][\/ HostStart
          \/ HostStop
          \/ StopWakes
          \/ Fire
          \/ Returns
          \/ Fails
          \/ Retries
          \/ Tick]_vars

\* ------------------------------------------------- the end-to-end scenario
\* every Base window shows an unchanging screen; the Base and Mid tiers run
SpecE2E ==
    /\ Begin({[t \in Tiers |-> t # "1h"]},
             [Plain EXCEPT
                 !.shots = {s \in ShotLists :
                               Len(s) >= 2 /\ \A i \in 1..Len(s) : s[i] = s[1]},
                 !.saves = BOOLEAN, !.budget = MaxRunsE2E, !.track = TRUE],
             "embedded", {NoTodoData}, {NoCall})
    /\ [][\/ HostStart
          \/ HostStop
          \/ Fire]_vars

\* ------------------------------------ the summary service process, main()
\* shutdown(signal): the handler of SIGINT, SIGTERM and the stop-time timer
shutdown ==
    IF isStopping
    THEN /\ last' = Event("signal", "-")
         /\ UNCHANGED <<config, probe, svars, day, clock, streak, begun, apps, isStopping, proc>>
    ELSE /\ isStopping' = TRUE
         /\ stop
         /\ proc' = IF last'.kind = "stopReturn" THEN "exited" ELSE proc

\* main() reaches scheduler.start()
MainStart ==
    /\ proc = "starting"
    /\ start
    /\ proc' = "running"
    /\ UNCHANGED <<isStopping, killArmed>>

\* SIGINT or SIGTERM from the terminal, or the stop-time timer
Signal ==
    /\ proc = "running"
    /\ shutdown
    /\ killArmed' = (killArmed /\ proc' = "running")

\* ServiceManager.stopService('summary'): arm the timeout, send SIGTERM
stopService ==
    /\ proc = "running"
    /\ ~killArmed
    /\ shutdown
    /\ killArmed' = (proc' = "running")

\* the 10 s timeout of stopService: child.kill('SIGKILL')
KillTimeout ==
    /\ proc = "running"
    /\ killArmed
    /\ proc' = "killed"
    /\ killArmed' = FALSE
    /\ last' = Event("kill", "-")
    /\ UNCHANGED <<config, probe, svars, day, clock, streak, begun, apps, isStopping>>

\* the stop() awaited by shutdown() returns: process.exit(0)
ShutdownEnds ==
    /\ proc = "running"
    /\ stopPoll
    /\ proc' = "exited"
    /\ killArmed' = FALSE
    /\ UNCHANGED isStopping

Alive == proc = "running"

SpecProc ==
    /\ Begin([Tiers -> BOOLEAN],
             [Plain EXCEPT !.gates = BOOLEAN, !.saves = BOOLEAN,
                           !.budget = MaxRunsProc],
             "starting", {NoTodoData}, {NoCall})
    /\ [][\/ MainStart
          \/ Signal
          \/ stopService
          \/ KillTimeout
          \/ ShutdownEnds
          \/ Alive /\ Fire
          \/ Alive /\ Returns
          \/ Alive /\ Fails
          \/ Alive /\ Retries]_vars

\* ------------------------------------------------------- _detectTimeGap

\* Math.round(ms / 60000): the nearest whole minute, a half rounding up
RoundMinutes(ms) == (ms + 30000) \div 60000

NoGap == [gap |-> FALSE, gapMinutes |-> 0, lastSummaryTime |-> 0]

\* a faulty variant: a difference of exactly twice the interval is a gap
_detectTimeGap_AtBoundary(historySummaries, intervalMinutes, now) ==
    IF ~historySummaries.given \/ Len(historySummaries.items) = 0
    THEN NoGap
    ELSE LET lastSummary == historySummaries.items[Len(historySummaries.items)]
             diffMinutes == RoundMinutes(now - lastSummary.at)
         IN  IF ~lastSummary.has \/ ~lastSummary.valid
             THEN NoGap
             ELSE IF diffMinutes >= intervalMinutes * 2
             THEN [gap |-> TRUE, gapMinutes |-> diffMinutes,
                   lastSummaryTime |-> lastSummary.at]
             ELSE NoGap

\* a faulty variant: without the test for a missing timestamp, so that a
\* null timestamp is read as the time 0
_detectTimeGap_NoStampTest(historySummaries, intervalMinutes, now) ==
    IF ~historySummaries.given \/ Len(historySummaries.items) = 0
    THEN NoGap
    ELSE LET lastSummary == historySummaries.items[Len(historySummaries.items)]
             lastTime == IF lastSummary.has THEN lastSummary.at ELSE 0
             diffMinutes == RoundMinutes(now - lastTime)
         IN  IF lastSummary.has /\ ~lastSummary.valid
             THEN NoGap
             ELSE IF diffMinutes > intervalMinutes * 2
             THEN [gap |-> TRUE, gapMinutes |-> diffMinutes,
                   lastSummaryTime |-> lastTime]
             ELSE NoGap

\* now: the value of new Date() inside the function. An unparseable
\* timestamp gives NaN for diffMinutes, and NaN > x is false
_detectTimeGap(historySummaries, intervalMinutes, now) ==
    IF ~historySummaries.given \/ Len(historySummaries.items) = 0
    THEN NoGap
    ELSE LET lastSummary == historySummaries.items[Len(historySummaries.items)]
             diffMinutes == RoundMinutes(now - lastSummary.at)
         IN  IF ~lastSummary.has
             THEN NoGap
             ELSE IF ~lastSummary.valid
             THEN NoGap
             ELSE IF diffMinutes > intervalMinutes * 2
             THEN [gap |-> TRUE, gapMinutes |-> diffMinutes,
                   lastSummaryTime |-> lastSummary.at]
             ELSE NoGap

\* ------------------------------------------- the pure functions on their own

\* the inputs of the comparer predicates and of the gap detector
PureInputs ==
    [kind : {"screenshots"}, list : SeqsUpTo(Payloads, MaxList)]
    \cup [kind : {"summaries"},
          list : SeqsUpTo([no_change : BOOLEAN], MaxList)]
    \cup {x \in [kind : {"history"}, given : BOOLEAN,
                   list : SeqsUpTo([has : BOOLEAN, valid : BOOLEAN,
                                    at : {0, 60000}], MaxHistory),
                   intervalMinutes : {1, baseMinutes},
                   now : {m * 60000 + q * 15000 + j :
                             m \in 0..MaxGapMinutes, q \in 0..3,
                             j \in {-1, 0, 1}}] :
              ~x.given => x.list = << >>}

\* a scheduler just built and one input for one of its pure functions
\* the function is applied to the input and its result is kept
Applies(fn, out) ==
    /\ call.fn = "-"
    /\ call' = [fn |-> fn, arg |-> call.arg, out |-> out]

ApplyAllIdentical ==
    /\ call.arg.kind = "screenshots"
    /\ Applies("allIdentical", allIdentical(call.arg.list))
    /\ UNCHANGED <<config, svars, host, day, clock, last, streak, begun, apps, unreadable,
                   todoData, _behaviorUsageCache>>

ApplyAllNoChange ==
    /\ call.arg.kind = "summaries"
    /\ Applies("allNoChange", allNoChange(call.arg.list))
    /\ UNCHANGED <<config, svars, host, day, clock, last, streak, begun, apps, unreadable,
                   todoData, _behaviorUsageCache>>

ApplyDetectTimeGap ==
    /\ call.arg.kind = "history"
    /\ Applies("_detectTimeGap",
               _detectTimeGap([given |-> call.arg.given, items |-> call.arg.list],
                              call.arg.intervalMinutes, call.arg.now))
    /\ UNCHANGED <<config, svars, host, day, clock, last, streak, begun, apps, unreadable,
                   todoData, _behaviorUsageCache>>

SpecPure ==
    /\ Begin({[t \in Tiers |-> TRUE]}, Plain, "embedded", {NoTodoData},
             {[fn |-> "-", arg |-> x, out |-> FALSE] : x \in PureInputs})
    /\ [][\/ ApplyAllIdentical
          \/ ApplyAllNoChange
          \/ ApplyDetectTimeGap]_vars

\* ------------------------------------------------- what the claims speak of
\* the runs of tier t suspended in the analysis call
InFlight(t) == {r \in runs : r.tier = t}

\* the step was a timer fire of tier t (the event describes the step's handler)
Fired == last'.kind = "fire"

\* the pipeline state a fire can touch
pipeline == <<executing, stats, runs, store>>

\* every element of the list equals the first, and there are two or more
ByteIdentical(list) ==
    /\ Len(list) >= 2
    /\ \A i \in 1..Len(list) : \A j \in 1..Len(list) : list[i] = list[j]

\* every record of the list is marked no_change
EveryChildUnchanged(list) == \A i \in 1..Len(list) : list[i].no_change

\* the record file appended last to a granularity
Newest(g) == store[g][Len(store[g])]

\* in this step tier t persisted exactly one record, a no-change one
PersistsNoChange(t) ==
    /\ Len(store'[t]) = Len(store[t]) + 1
    /\ SubSeq(store'[t], 1, Len(store[t])) = store[t]
    /\ store'[t][Len(store'[t])].no_change
    /\ store'[t][Len(store'[t])].skip_reason # ""
    /\ \A u \in Tiers \ {t} : store'[u] = store[u]

\* in this step exactly the named counter of tier t went up by one
CountsOnly(t, field) == stats' = [stats EXCEPT ![t][field] = @ + 1]

\* ---------------------------------------------------------------------- C1
\* C1: for each tier, in every interleaving of fires, completions and stop(),
\* at most one run of the tier's pipeline is in flight, a run in flight holds
\* the tier's flag, and no run begins at a fire that found the flag set.
C1_OneRunPerTier ==
    /\ \A t \in Tiers : Cardinality(InFlight(t)) <= 1
    /\ \A t \in Tiers : InFlight(t) # {} => executing[t]
    /\ (last.kind = "fire" /\ last.began) => last.idle

\* a fire found its tier's flag set and its run in flight, and began nothing
C1_Witness ==
    /\ last.kind = "fire"
    /\ ~last.idle
    /\ ~last.began
    /\ executing[last.tier]
    /\ Cardinality(InFlight(last.tier)) = 1

\* ---------------------------------------------------------------------- C2
\* C2: a fire that finds its tier executing is dropped, not queued: the step
\* changes nothing of the pipeline, and a run begins (a flag is raised, a
\* request is sent, a counter moves while the tier is idle) only in the step
\* of a fire of that very tier that found it idle, one run per such fire.
C2_DroppedNotQueued ==
    [][/\ (Fired /\ ~last'.idle) => UNCHANGED pipeline
       /\ \A t \in Tiers :
            (~executing[t] /\ (executing'[t] \/ stats'[t] # stats[t]
                               \/ InFlight(t)' # InFlight(t)))
                => (Fired /\ last'.tier = t /\ last'.idle /\ last'.began)
       /\ \A t \in Tiers : Cardinality(InFlight(t)') <= Cardinality(InFlight(t)) + 1
      ]_vars

\* an allowed fire arrived while its tier's run was backing off between attempts
C2_Witness ==
    /\ last.kind = "fire"
    /\ ~last.idle
    /\ last.allowed
    /\ \E r \in InFlight(last.tier) : r.pc = "sleep"

\* ---------------------------------------------------------------------- C3
\* C3: when stop() returns, no tier's flag is set and no run is in flight.
C3_StopDrains ==
    last.kind \in {"stopReturn", "stopWake"} => (Drained /\ runs = {})

\* ---------------------------------------------------------------------- C4
\* C4: a stop() called on a running scheduler has cancelled every timer when
\* it first waits or returns, so that no later fire can begin a run.
C4_StopCancelsTimers ==
    (last.kind \in {"stopCall", "stopReturn"} /\ last.idle)
        => \A t \in Tiers : live[t] = 0

\* ---------------------------------------------------------------------- C5
\* C5: the summary process does not terminate, whatever triggered its
\* shutdown, while a tier run is in flight.
C5_ShutdownSparesRuns ==
    proc \in {"exited", "killed"} => (Drained /\ runs = {})

\* ---------------------------------------------------------------------- C6
\* C6 as stated: a Base run whose screenshots are two or more and all
\* byte-identical persists exactly one no-change record, raises skipped of its
\* tier by one and nothing else, and sends no request.
C6_Original ==
    [][(Fired /\ last'.tier = "2min" /\ last'.began /\ ByteIdentical(last'.input))
        => /\ PersistsNoChange("2min")
           /\ CountsOnly("2min", "skipped")
           /\ runs' = runs /\ last'.sent = 0
      ]_vars

\* C6: such a run sends no request and leaves its flag down; when the save
\* succeeds it persists exactly one no-change record and raises only skipped
\* by one; when the save throws it persists nothing and raises only errors.
C6_NoChangeBase ==
    [][(Fired /\ last'.tier = "2min" /\ last'.began /\ ByteIdentical(last'.input))
        => /\ runs' = runs /\ last'.sent = 0
           /\ executing' = executing
           /\ last'.saveOk => PersistsNoChange("2min") /\ CountsOnly("2min", "skipped")
           /\ ~last'.saveOk => store' = store /\ CountsOnly("2min", "errors")
      ]_vars

\* a Base run saved the no-change record of two identical screenshots
C6_Witness ==
    /\ last.kind = "fire" /\ last.tier = "2min" /\ last.began
    /\ ByteIdentical(last.input)
    /\ last.saveOk
    /\ stats["2min"].skipped >= 1
    /\ Newest("2min").no_change

MidSaved ==
    /\ last.kind = "fire" /\ last.tier = "10min" /\ last.began
    /\ last.saveOk

C9_DisallowedNoEffect ==
    [][(Fired /\ ~last'.allowed)
        => /\ UNCHANGED pipeline
           /\ ~last'.began /\ ~last'.read /\ last'.sent = 0
           /\ last'.idle => ~executing'[last'.tier]
      ]_vars

\* a fire found its tier idle and the time not allowed
C9_Witness ==
    /\ last.kind = "fire"
    /\ last.idle
    /\ ~last.allowed
    /\ ~executing[last.tier]

\* --------------------------------------------------------------------- C10
\* C10: a run whose gathered input is empty writes no record, sends no
\* request, leaves every counter of every tier unchanged and ends with its
\* flag down.
C10_EmptyInput ==
    [][(Fired /\ last'.began /\ last'.read /\ Len(last'.input) = 0)
        => /\ store' = store
           /\ runs' = runs /\ last'.sent = 0
           /\ stats' = stats
           /\ ~executing'[last'.tier]
      ]_vars

\* a Mid or Top run found no child record
C10_Witness ==
    /\ last.kind = "fire"
    /\ last.tier \in {"10min", "1h"}
    /\ last.began /\ last.read
    /\ Len(last.input) = 0
    /\ ~executing[last.tier]

\* --------------------------------------------------------------------- C11
\* the step ended a run that had reached the analysis branch: generate()
\* returned or threw, or the run threw on its way to the request
EndsAnalysis ==
    \/ last'.kind \in {"response", "failure"}
    \/ Fired /\ last'.threw /\ last'.read

\* in this step tier t persisted exactly one record and no other tier any
PersistsOne(t) ==
    /\ Len(store'[t]) = Len(store[t]) + 1
    /\ SubSeq(store'[t], 1, Len(store[t])) = store[t]
    /\ \A u \in Tiers \ {t} : store'[u] = store[u]

\* C11: a run that reaches the analysis branch changes exactly one counter of
\* its tier, once, when it ends: count goes up by one if and only if the run
\* persisted a record, otherwise errors goes up by one; never both, and
\* nothing is counted while the request is in flight.
C11_OneCounterPerRun ==
    [][/\ (Fired /\ last'.sent = 1) => (stats' = stats /\ store' = store)
       /\ last'.kind \in {"retry", "attempt"} => (stats' = stats /\ store' = store)
       /\ EndsAnalysis =>
            IF store' # store
            THEN PersistsOne(last'.tier) /\ CountsOnly(last'.tier, "count")
            ELSE CountsOnly(last'.tier, "errors")
      ]_vars

\* a Base run got its response and the save threw, after an earlier Base run
\* had persisted its record
C11_Witness ==
    /\ last.kind = "response"
    /\ last.tier = "2min"
    /\ ~last.saveOk
    /\ stats["2min"].count = 1
    /\ stats["2min"].errors = 1
    /\ Len(store["2min"]) = 1

\* --------------------------------------------------------------------- C12
\* the (tier, id) pairs of the runs in flight
RunIds == {<<r.tier, r.id>> : r \in runs}

\* what a Mid or Top run reads from the store as it is before the step: the
\* selected child files without the ones that could not be read
ChildrenNow(t) ==
    LET files == IF t = "10min"
                 THEN RecentFiles("2min", Max(1, CeilDiv(10, baseMinutes)))
                 ELSE RecentFiles("10min", recent10minCount)
        keep == {i \in 1..Len(files) : i \notin unreadable'}
        nth(k) == CHOOSE i \in keep : Cardinality({j \in keep : j < i}) = k - 1
    IN  [k \in 1..Cardinality(keep) |-> files[nth(k)]]

\* C12: when generate() gives up after its last attempt the run persists no
\* record, raises only errors of its tier by one and is over: nothing of it
\* stays in flight and its flag is down. A run starts only at a timer fire;
\* it starts at attempt 1 and works on what the store holds at that moment.
C12_ExhaustionEndsRun ==
    [][/\ last'.kind = "failure" =>
            /\ store' = store
            /\ CountsOnly(last'.tier, "errors")
            /\ \A r \in runs' : r.tier # last'.tier
            /\ ~executing'[last'.tier]
            /\ RunIds' \subseteq RunIds
       /\ RunIds' \ RunIds # {} =>
            /\ Fired /\ last'.sent = 1
            /\ \A r \in runs' \ runs :
                  r.tier = last'.tier /\ r.attempt = 1 /\ r.lastError = "none"
            /\ last'.tier # "2min" => last'.input = ChildrenNow(last'.tier)
      ]_vars

\* a Base run ended by retry exhaustion after an empty response; its timer is
\* still armed
C12_Witness ==
    /\ last.kind = "failure"
    /\ last.tier = "2min"
    /\ last.error = "empty"
    /\ stats["2min"].errors = 1
    /\ store["2min"] = << >>
    /\ InFlight("2min") = {}
    /\ live["2min"] > 0

Decodable(responseText) == responseText.whole \/ responseText.fence = "json"

\* C14: whatever the response text, the parse step does not abort the run:
\* when the save succeeds the run persists one record and raises only count.
\* The record is the decoded one when the text or the content of its code
\* fence is valid JSON, and the fallback holding the raw text otherwise.
C14_ParseFallback ==
    [][(last'.kind = "response" /\ last'.saveOk) =>
            /\ PersistsOne(last'.tier)
            /\ CountsOnly(last'.tier, "count")
            /\ store'[last'.tier][Len(store'[last'.tier])].raw
                   = ~Decodable(last'.text)
      ]_vars

\* --------------------------------------------------------------------- C15
\* the step is a run of last'.tier meeting a failure: generate() gave up, a
\* save threw, a directory listing threw, or the taxonomy write-back threw
FailedInside ==
    \/ last'.kind = "failure"
    \/ last'.kind = "response" /\ (~last'.saveOk \/ ~last'.todoOk)
    \/ Fired /\ last'.began /\ last'.threw
    \/ /\ Fired /\ last'.began /\ last'.read
       /\ Len(last'.input) > 0 /\ last'.sent = 0 /\ ~last'.saveOk

\* C15: a failure inside a run of one tier stays inside that run: the tier's
\* flag is down afterwards, the scheduler still counts as running as before
\* and every armed timer is still armed, and the flags, counters and runs of
\* the other two tiers are as they were.
C15_FailureContained ==
    [][FailedInside =>
          /\ ~executing'[last'.tier]
          /\ isRunning' = isRunning /\ timer' = timer /\ live' = live
          /\ \A u \in Tiers \ {last'.tier} :
                /\ executing'[u] = executing[u]
                /\ stats'[u] = stats[u]
                /\ {r \in runs' : r.tier = u} = InFlight(u)
      ]_vars

\* the Mid run could not list its directory while a Base run was waiting for
\* its response; the Base flag is still up, the Mid flag is down, the timers
\* are armed
C15_Witness ==
    /\ last.kind = "fire"
    /\ last.tier = "10min"
    /\ last.threw
    /\ stats["10min"].errors = 1
    /\ ~executing["10min"]
    /\ executing["2min"]
    /\ InFlight("2min") # {}
    /\ \A t \in Tiers : live[t] > 0

\* --------------------------------------------------------------------- C16
\* C16: a Mid or Top run whose read of the child records meets no directory
\* for the day or files that cannot be read or decoded goes on with exactly
\* the readable records, in order. With none readable it ends as a run
\* without input: no record, no counter changed, flag down. With some, it
\* goes on as usual; errors rises in that step only if a save or a later
\* directory listing threw.
C16_ReadSkipsUnreadable ==
    [][(Fired /\ last'.read /\ last'.tier # "2min"
              /\ (unreadable' # {} \/ TodayFiles(IF last'.tier = "10min"
                                                      THEN "2min" ELSE "10min")
                                            = << >>))
          => /\ last'.input = ChildrenNow(last'.tier)
             /\ Len(last'.input) = 0 =>
                   /\ stats' = stats /\ store' = store /\ runs' = runs
                   /\ ~executing'[last'.tier]
             /\ stats'[last'.tier].errors # stats[last'.tier].errors =>
                   \/ last'.threw
                   \/ EveryChildUnchanged(last'.input) /\ ~last'.saveOk
      ]_vars

\* the Mid run found two Base files, could not read the first and went on to
\* the analysis request with the second; no error is counted
C16_Witness ==
    /\ last.kind = "fire"
    /\ last.tier = "10min"
    /\ Len(store["2min"]) = 2
    /\ unreadable = {1}
    /\ last.input = <<store["2min"][2]>>
    /\ last.sent = 1
    /\ stats["10min"].errors = 0

\* --------------------------------------------------------------------- C17
\* C17: when the taxonomy write-back throws after a Base run has saved its
\* record, the record stays in the store as it was saved, count of the Base
\* tier is one higher than before the run ended and no errors counter moves;
\* the run ends with its flag down.
C17_WriteBackContained ==
    [][(last'.kind = "response" /\ last'.tier = "2min"
           /\ last'.saveOk /\ ~last'.todoOk)
          => /\ PersistsOne("2min")
             /\ store'["2min"][Len(store'["2min"])]
                   = Saved("2min", store'["2min"][Len(store'["2min"])],
                           _parseResponse(last'.text))["2min"][Len(store'["2min"])]
             /\ CountsOnly("2min", "count")
             /\ ~executing'["2min"]
      ]_vars

\* a Base run saved its record and its write-back threw
C17_Witness ==
    /\ last.kind = "response"
    /\ last.tier = "2min"
    /\ last.saveOk
    /\ ~last.todoOk
    /\ Len(store["2min"]) = 1
    /\ stats["2min"] = [count |-> 1, errors |-> 0, skipped |-> 0]

\* --------------------------------------------------------------------- C18
\* C18: allIdentical(list) is true exactly when the list has two or more
\* items and each item equals the first; it is false for every list of
\* length 0 or 1 and for every list with an item that differs from the first.
C18_AllIdentical ==
    call.fn = "allIdentical" =>
        LET list == call.arg.list IN
        /\ call.out <=> (Len(list) >= 2 /\ \A i \in 1..Len(list) : list[i] = list[1])
        /\ Len(list) <= 1 => ~call.out
        /\ (\E i \in 1..Len(list) : list[i] # list[1]) => ~call.out

\* three equal screenshots were compared and found identical
C18_Witness ==
    /\ call.fn = "allIdentical"
    /\ Len(call.arg.list) = 3
    /\ \A i \in 1..3 : call.arg.list[i] = call.arg.list[1]
    /\ call.out

\* --------------------------------------------------------------------- C19
\* C19: allNoChange(records) is false for the empty list, true for a
\* non-empty list whose records all have no_change = true, and false for
\* every list with a record whose no_change is false.
C19_AllNoChange ==
    call.fn = "allNoChange" =>
        LET records == call.arg.list IN
        /\ Len(records) = 0 => ~call.out
        /\ (Len(records) > 0 /\ \A i \in 1..Len(records) : records[i].no_change)
              => call.out
        /\ (\E i \in 1..Len(records) : ~records[i].no_change) => ~call.out

\* three records, only the last of them changed: the answer is false
C19_Witness ==
    /\ call.fn = "allNoChange"
    /\ Len(call.arg.list) = 3
    /\ call.arg.list[1].no_change /\ call.arg.list[2].no_change
    /\ ~call.arg.list[3].no_change
    /\ ~call.out

\* --------------------------------------------------------------------- C20
\* the whole number of minutes nearest to ms, a half counting upwards
NearestMinute(ms) ==
    CHOOSE d \in -2..(MaxGapMinutes + 2) :
        60000 * d - 30000 <= ms /\ ms < 60000 * d + 30000

\* C20: for a history whose last record has a parseable timestamp,
\* _detectTimeGap returns a gap exactly when diffMinutes, the difference
\* between now and that timestamp rounded to whole minutes, is greater than
\* twice the expected interval, and the gap's gapMinutes is diffMinutes. It
\* returns a gap for no other history. With an interval of 2 minutes a
\* difference of exactly 4 minutes gives null and one of exactly 5 minutes
\* a gap of 5.
C20_DetectGap ==
    call.fn = "_detectTimeGap" =>
        LET history == call.arg.list
            lastSummary == history[Len(history)]
            timed == Len(history) > 0 /\ lastSummary.has /\ lastSummary.valid
            diffMs == call.arg.now - lastSummary.at
        IN  /\ call.out.gap => timed
            /\ timed =>
                 /\ call.out.gap <=>
                       NearestMinute(diffMs) > 2 * call.arg.intervalMinutes
                 /\ call.out.gap => call.out.gapMinutes = NearestMinute(diffMs)
                 /\ (call.arg.intervalMinutes = 2 /\ diffMs = 4 * 60000)
                       => ~call.out.gap
                 /\ (call.arg.intervalMinutes = 2 /\ diffMs = 5 * 60000)
                       => call.out.gap /\ call.out.gapMinutes = 5

\* the last record is 5 minutes old, the interval is 2 minutes: a gap of 5
C20_Witness ==
    /\ call.fn = "_detectTimeGap"
    /\ call.arg.intervalMinutes = 2
    /\ Len(call.arg.list) = 2
    /\ call.arg.list[2].has /\ call.arg.list[2].valid
    /\ call.arg.now - call.arg.list[2].at = 5 * 60000
    /\ call.out.gap
    /\ call.out.gapMinutes = 5

\* --------------------------------------------------------------------- C21
\* C21: _detectTimeGap returns null when it is given no history or an empty
\* one, and when the last record of the history has no timestamp or one
\* that does not parse as a time, however long ago the records before it
\* were written.
C21_NoGapWithoutTime ==
    call.fn = "_detectTimeGap" =>
        LET history == call.arg.list IN
        /\ ~call.arg.given => call.out = NoGap
        /\ Len(history) = 0 => call.out = NoGap
        /\ (Len(history) > 0 /\ ~history[Len(history)].has) => call.out = NoGap
        /\ (Len(history) > 0 /\ ~history[Len(history)].valid) => call.out = NoGap

\* two records, the older one with a good timestamp far in the past, the
\* last one without a timestamp: null
C21_Witness ==
    /\ call.fn = "_detectTimeGap"
    /\ Len(call.arg.list) = 2
    /\ call.arg.list[1].has /\ call.arg.list[1].valid
    /\ ~call.arg.list[2].has
    /\ call.arg.now - call.arg.list[1].at >= 6 * 60000
    /\ call.out = NoGap

Files(t) == {<<store[t][i].day, store[t][i].minute>> : i \in 1..Len(store[t])}

\* the record a tier holds under a timestamp
FileAt(files, key) ==
    LET i == CHOOSE i \in 1..Len(files) : <<files[i].day, files[i].minute>> = key
    IN  files[i]

\* C23: persisted records are never overwritten: every save, by whichever
\* tier, writes under a (tier, timestamp) key no earlier save has used, so
\* each save adds one record to its tier and every record already written,
\* of any tier, stays as it is.
C23_NeverOverwritten ==
    [][\A t \in Tiers :
          /\ Files(t) \subseteq Files(t)'
          /\ \A key \in Files(t) : FileAt(store[t], key) = FileAt(store'[t], key)
          /\ store'[t] # store[t] => Len(store'[t]) = Len(store[t]) + 1
      ]_vars

\* ---------------------------------------------------------------------- C24
\* the behaviors a context built now from the files and the records as they
\* are would list
CurrentBehaviors ==
    _splitBehaviorsByCategory(todoData.behaviors,
                              ScanRecent(store["2min"], Now))

\* C24: the taxonomy store and the record store are read through no cache
\* that can go stale: the taxonomy context of every analysis request,
\* with its recently used machine-proposed behaviors, is what the stores
\* hold when the request is built, not a value computed during an earlier
\* run or by another tier.
C24_ContextIsCurrent ==
    [][(Fired /\ last'.sent = 1) =>
          /\ last'.context.built
          /\ last'.context.behaviors = CurrentBehaviors
      ]_vars

\* ---------------------------------------------------------------------- C25
\* a Base record classifies activity under a behavior of this name
Classifies(record, name) ==
    \E i \in 1..Len(record.category_name) :
        /\ record.category_name[i] = name
        /\ i <= Len(record.category_type)
        /\ record.category_type[i] \in {"behavior", "new_behavior"}

\* the record's timestamp lies within the last behaviorRecentDays days
WithinRecentDays(record) ==
    \/ record.day > day - behaviorRecentDays
    \/ record.day = day - behaviorRecentDays /\ record.minute >= clock.minute

\* C25: the taxonomy context of an analysis request lists every
\* user-authored behavior, and lists a machine-proposed behavior if and only
\* if at least one persisted Base record of the last behaviorRecentDays days
\* classifies activity under that behavior's name.
C25_RecentBehaviors ==
    [][(Fired /\ last'.sent = 1) =>
          \A i \in 1..Len(todoData.behaviors) :
              LET b == todoData.behaviors[i]
                  listed == \E k \in 1..Len(last'.context.behaviors) :
                                last'.context.behaviors[k] = b
              IN  IF b.source # "ai"
                  THEN listed
                  ELSE listed <=> \E j \in 1..Len(store["2min"]) :
                                      /\ WithinRecentDays(store["2min"][j])
                                      /\ Classifies(store["2min"][j], b.name)
      ]_vars

\* ----------------------------------------------- the taxonomy write-back

\* a todo writer over some files, and one parsed record
\* todoWriter.processResponse(parsed) is called with the record, once more
\* each time (out counts the calls)
ApplyProcessResponse ==
    /\ call.out < MaxRepeats
    /\ todoData' = processResponse(todoData, call.arg)
    /\ call' = [fn |-> "processResponse", arg |-> call.arg,
                out |-> call.out + 1]
    /\ UNCHANGED <<config, svars, host, day, clock, last, streak, begun, apps, unreadable,
                   _behaviorUsageCache>>

SpecTodo ==
    /\ Begin({[t \in Tiers |-> TRUE]}, Plain, "embedded",
             [todos : {<< >>, <<[title |-> "report", children |-> << >>]>>,
                       <<[title |-> "report", children |-> <<"draft">>]>>},
              behaviors : {<< >>, <<[name |-> "resting", source |-> "user"]>>,
                           <<[name |-> "resting", source |-> "ai"]>>}],
             {[fn |-> "-", out |-> 0,
               arg |-> [NoContent EXCEPT !.category_type = types,
                                         !.category_name = names,
                                         !.subtask_name = subtasks]] :
                 types \in SeqsUpTo({"task", "behavior", "new_task",
                                     "new_behavior"}, MaxClaims),
                 names \in SeqsUpTo({"report", "resting", ""}, MaxClaims),
                 subtasks \in SeqsUpTo({"draft", ""}, MaxClaims)})
    /\ [][\/ ApplyProcessResponse]_vars

\* ---------------------------------------------------------------------- C26
\* no two tasks, no two behaviors and no two subtasks of one task share a name
NoDuplicates(files) ==
    /\ \A i, j \in 1..Len(files.todos) :
          files.todos[i].title = files.todos[j].title => i = j
    /\ \A i, j \in 1..Len(files.behaviors) :
          files.behaviors[i].name = files.behaviors[j].name => i = j
    /\ \A k \in 1..Len(files.todos) :
          \A i, j \in 1..Len(files.todos[k].children) :
              files.todos[k].children[i] = files.todos[k].children[j] => i = j

\* C26: the taxonomy write-back is idempotent by name: processing a parsed
\* Base record creates a task, a subtask or a behavior only when no entry of
\* that name exists, so processing the same record a second time leaves the
\* taxonomy as the first processing left it, and the taxonomy never holds
\* two tasks, two behaviors or two subtasks of one task with one name.
C26_WriteBackIdempotent ==
    /\ []NoDuplicates(todoData)
    /\ [][call.out >= 1 => todoData' = todoData]_vars
    /\ [][\A i \in 1..Len(todoData'.todos) :
              \A j \in 1..Len(todoData.todos) :
                  todoData'.todos[i].title = todoData.todos[j].title => i = j
         ]_vars

\* ---------------------------------------------------------------------- C27
\* the aggregation the request of a Mid run asks of the analysis service
\* (activity timeline rules of the 10min prompt): each child stands for one
\* window of baseMinutes, the children taken as consecutive windows in the
\* order read; a label's consecutive windows merge into one entry, whose
\* minutes are the windows' total, and entries under 3 minutes are dropped
Claimed(children, label) ==
    {k \in 1..Len(children) :
        \E i \in 1..Len(children[k].category_name) :
            children[k].category_name[i] = label}

Stretches(W) ==
    {ab \in W \X W : /\ ab[1] <= ab[2]
                     /\ \A k \in ab[1]..ab[2] : k \in W
                     /\ (ab[1] - 1) \notin W
                     /\ (ab[2] + 1) \notin W}

TimelineOf(children) ==
    LET labels == UNION {{children[k].category_name[i] :
                             i \in 1..Len(children[k].category_name)} :
                         k \in 1..Len(children)}
        all == UNION {{[label |-> l,
                        minutes |-> (ab[2] - ab[1] + 1) * baseMinutes] :
                          ab \in Stretches(Claimed(children, l))} :
                      l \in labels}
    IN  {e \in all : e.minutes >= 3}

\* the aggregation the request of a Top run asks for (time distribution
\* rules of the 1h prompt): the minutes of a label are added up over the
\* timelines of the children, and labels of 5 minutes or more are listed
RECURSIVE TotalMinutes(_, _)
TotalMinutes(timeline, label) ==
    IF timeline = << >>
    THEN 0
    ELSE (IF Head(timeline).label = label THEN Head(timeline).minutes ELSE 0)
             + TotalMinutes(Tail(timeline), label)

RECURSIVE TotalOver(_, _)
TotalOver(children, label) ==
    IF children = << >>
    THEN 0
    ELSE TotalMinutes(Head(children).activity_timeline, label)
             + TotalOver(Tail(children), label)

DistributionOf(children) ==
    LET labels == UNION {{children[k].activity_timeline[i].label :
                             i \in 1..Len(children[k].activity_timeline)} :
                         k \in 1..Len(children)}
        all == {[label |-> l, minutes |-> TotalOver(children, l)] : l \in labels}
    IN  {e \in all : e.minutes >= 5}

Entries(list) == {list[i] : i \in 1..Len(list)}

\* the step is the end of a Mid or Top run whose answer came and was saved
SavesAnswer ==
    /\ last'.kind = "response"
    /\ last'.saveOk
    /\ last'.tier # baseGranularity

NoTime == [given |-> FALSE, h |-> 0, m |-> 0]

parseTimeToMinute(timeStr) ==
    IF ~timeStr.given
    THEN -1
    ELSE IF timeStr.h < 0 \/ timeStr.h > 23 \/ timeStr.m < 0 \/ timeStr.m > 59
    THEN -1
    ELSE timeStr.h * 60 + timeStr.m

\* the key of a lane; a missing category_type ("") counts as a behavior
Lane(item) ==
    [categoryType |-> IF item.category_type = "" THEN "behavior"
                      ELSE item.category_type,
     label |-> item.label]

\* a faulty variant: the length of an item is not looked at
ActivitiesOf_NoThreshold(s, item) ==
    IF item.label = ""
    THEN << >>
    ELSE IF item.start_time.given /\ item.end_time.given
    THEN LET startMinute == parseTimeToMinute(item.start_time)
             endMinute == parseTimeToMinute(item.end_time)
             minutes == IF item.minutes # 0 THEN item.minutes
                        ELSE endMinute - startMinute
         IN  IF startMinute < 0 \/ endMinute < 0 \/ endMinute <= startMinute
             THEN << >>
             ELSE <<[label |-> item.label, laneKey |-> Lane(item),
                     subtasks |-> item.subtasks, startMinute |-> startMinute,
                     endMinute |-> endMinute, minutes |-> minutes]>>
    ELSE IF item.minutes # 0 /\ s.timestamp.given
    THEN LET endMinute == parseTimeToMinute(s.timestamp)
             startMinute == Max(0, endMinute - item.minutes)
         IN  IF endMinute < 0
             THEN << >>
             ELSE <<[label |-> item.label, laneKey |-> Lane(item),
                     subtasks |-> item.subtasks, startMinute |-> startMinute,
                     endMinute |-> endMinute, minutes |-> item.minutes]>>
    ELSE << >>

\* the first loop: the activities one timeline item of summary s gives, none
\* or one. minutes = 0 stands for a minutes field that is missing or zero
ActivitiesOf(s, item) ==
    IF item.label = ""
    THEN << >>
    ELSE IF item.start_time.given /\ item.end_time.given
    THEN LET startMinute == parseTimeToMinute(item.start_time)
             endMinute == parseTimeToMinute(item.end_time)
             minutes == IF item.minutes # 0 THEN item.minutes
                        ELSE endMinute - startMinute
         IN  IF startMinute < 0 \/ endMinute < 0 \/ endMinute <= startMinute
             THEN << >>
             ELSE IF minutes < 3
             THEN << >>
             ELSE <<[label |-> item.label, laneKey |-> Lane(item),
                     subtasks |-> item.subtasks, startMinute |-> startMinute,
                     endMinute |-> endMinute, minutes |-> minutes]>>
    ELSE IF item.minutes # 0 /\ s.timestamp.given
    THEN LET endMinute == parseTimeToMinute(s.timestamp)
             startMinute == Max(0, endMinute - item.minutes)
         IN  IF endMinute < 0
             THEN << >>
             ELSE IF item.minutes < 3
             THEN << >>
             ELSE <<[label |-> item.label, laneKey |-> Lane(item),
                     subtasks |-> item.subtasks, startMinute |-> startMinute,
                     endMinute |-> endMinute, minutes |-> item.minutes]>>
    ELSE << >>

RECURSIVE OfTimeline(_, _)
OfTimeline(s, timeline) ==
    IF timeline = << >>
    THEN << >>
    ELSE ActivitiesOf(s, Head(timeline)) \o OfTimeline(s, Tail(timeline))

\* allActivities: a summary whose activity_timeline is not an array is passed
RECURSIVE AllActivities(_)
AllActivities(summaries) ==
    IF summaries = << >>
    THEN << >>
    ELSE (IF Head(summaries).activity_timeline.isArray
          THEN OfTimeline(Head(summaries),
                          Head(summaries).activity_timeline.items)
          ELSE << >>)
             \o AllActivities(Tail(summaries))

\* Array.prototype.sort by startMinute; the sort is stable
RECURSIVE SortedByStart(_)
SortedByStart(list) ==
    IF list = << >>
    THEN << >>
    ELSE LET before == SortedByStart(SubSeq(list, 1, Len(list) - 1))
             act == list[Len(list)]
             keep == {i \in 1..Len(before) :
                         before[i].startMinute <= act.startMinute}
             n == Cardinality(keep)
         IN  SubSeq(before, 1, n) \o <<act>> \o SubSeq(before, n + 1, Len(before))

\* subtasks of b not yet in a are pushed to a, in order
RECURSIVE Pushed(_, _)
Pushed(a, b) ==
    IF b = << >>
    THEN a
    ELSE Pushed(IF \E i \in 1..Len(a) : a[i] = Head(b)
                THEN a ELSE Append(a, Head(b)),
                Tail(b))

\* the merge loop: an activity joins the one before it in start order when
\* both are of one lane and it starts no later than 2 minutes after that
\* one's end
Merged(sorted) ==
    LET RECURSIVE Fold(_, _)
        Fold(merged, rest) ==
            IF rest = << >>
            THEN merged
            ELSE LET act == Head(rest)
                     n == Len(merged)
                 IN  IF n > 0 /\ merged[n].laneKey = act.laneKey
                              /\ act.startMinute <= merged[n].endMinute + 2
                     THEN LET endMinute == Max(merged[n].endMinute, act.endMinute)
                          IN  Fold([merged EXCEPT
                                      ![n].endMinute = endMinute,
                                      ![n].minutes = endMinute - merged[n].startMinute,
                                      ![n].subtasks = Pushed(@, act.subtasks)],
                                   Tail(rest))
                     ELSE Fold(Append(merged, act), Tail(rest))
    IN  Fold(<< >>, sorted)

\* the lanes, in the order their keys first appear: the segments of a lane
\* and its subtasks; a segment keeps the subtasks of its activity, which is
\* what subtaskSegments lists subtask by subtask
Lanes(merged) ==
    LET first(k) == CHOOSE i \in 1..Len(merged) :
                        /\ merged[i].laneKey = k
                        /\ \A j \in 1..(i - 1) : merged[j].laneKey # k
        keys == {merged[i].laneKey : i \in 1..Len(merged)}
        nth(p) == CHOOSE k \in keys :
                      Cardinality({q \in keys : first(q) < first(k)}) = p - 1
        RECURSIVE Of(_, _)
        Of(k, rest) ==
            IF rest = << >>
            THEN [subtasks |-> << >>, segments |-> << >>]
            ELSE LET act == rest[Len(rest)]
                     lane == Of(k, SubSeq(rest, 1, Len(rest) - 1))
                 IN  IF act.laneKey # k
                     THEN lane
                     ELSE [subtasks |-> Pushed(lane.subtasks, act.subtasks),
                           segments |-> Append(lane.segments,
                               [startMinute |-> act.startMinute,
                                endMinute |-> act.endMinute,
                                minutes |-> act.minutes,
                                subtasks |-> act.subtasks])]
    IN  [p \in 1..Cardinality(keys) |->
            [filterKey |-> nth(p), label |-> nth(p).label,
             categoryType |-> nth(p).categoryType,
             subtasks |-> Of(nth(p), merged).subtasks,
             segments |-> Of(nth(p), merged).segments]]

buildSummaryTimelineData(summaries) ==
    LET allActivities == AllActivities(summaries)
        merged == Merged(SortedByStart(allActivities))
        lanes == Lanes(merged)
        tickStep == 15
        minStart == CHOOSE x \in {merged[i].startMinute : i \in 1..Len(merged)} :
                        \A i \in 1..Len(merged) : x <= merged[i].startMinute
        maxEnd == CHOOSE x \in {merged[i].endMinute : i \in 1..Len(merged)} :
                      \A i \in 1..Len(merged) : x >= merged[i].endMinute
        floorStart == (minStart \div tickStep) * tickStep
        ceilEnd == CeilDiv(maxEnd, tickStep) * tickStep
        mid == (floorStart + ceilEnd + 1) \div 2
        start60 == Max(0, mid - 30)
        end60 == IF start60 + 60 < 1440 THEN start60 + 60 ELSE 1440
    IN  IF Len(allActivities) = 0
        THEN [lanes |-> << >>, rangeStart |-> 0, rangeEnd |-> 0,
              tickStep |-> 15, maxEndMinute |-> 0]
        ELSE [lanes |-> lanes,
              rangeStart |-> IF ceilEnd - floorStart >= 60 THEN floorStart
                             ELSE IF end60 - start60 < 60
                             THEN Max(0, end60 - 60) ELSE start60,
              rangeEnd |-> IF ceilEnd - floorStart >= 60 THEN ceilEnd ELSE end60,
              tickStep |-> tickStep, maxEndMinute |-> maxEnd]

\* the times 'HH:MM' on the grid of the Base windows, from 00:00 on
Slot(k) == [given |-> TRUE, h |-> 0, m |-> k * baseMinutes]

BadTime == [given |-> TRUE, h |-> 24, m |-> 0]

PlainItem(k) ==
    [label |-> "work", category_type |-> "task", subtasks |-> << >>,
     start_time |-> Slot(k), end_time |-> Slot(k + 1), minutes |-> 0]

\* the Mid records of a day as the view reads them: the timestamp of the
\* record and its timeline, which a record may lack
Summary(timestamp, isArray, items) ==
    [timestamp |-> timestamp,
     activity_timeline |-> [isArray |-> isArray, items |-> items]]

Summaries ==
    {Summary(Slot(MaxSlot), TRUE,
             <<[label |-> lane[1], category_type |-> lane[2],
                subtasks |-> lane[3], start_time |-> Slot(w[1]),
                end_time |-> Slot(w[2]), minutes |-> minutes]>>) :
        lane \in {<<"work", "task", << >> >>, <<"work", "task", <<"draft">> >>,
                  <<"read", "", << >> >>},
        w \in {x \in (0..MaxSlot) \X (0..MaxSlot) : x[2] - x[1] \in {1, 2}},
        minutes \in {0, 5}}
    \cup {Summary(Slot(1), TRUE, <<x>>) :
             x \in {[PlainItem(0) EXCEPT !.label = ""],
                    [PlainItem(0) EXCEPT !.end_time = BadTime],
                    [PlainItem(1) EXCEPT !.end_time = Slot(0)],
                    [PlainItem(0) EXCEPT !.start_time = NoTime,
                                         !.end_time = NoTime],
                    [PlainItem(0) EXCEPT !.start_time = NoTime,
                                         !.end_time = NoTime, !.minutes = 2],
                    [PlainItem(0) EXCEPT !.start_time = NoTime,
                                         !.end_time = NoTime, !.minutes = 5]}}
    \cup {Summary(ts, TRUE, <<[PlainItem(0) EXCEPT !.start_time = NoTime,
                                                   !.end_time = NoTime,
                                                   !.minutes = 5]>>) :
            ts \in {BadTime, NoTime}}
    \cup {Summary(Slot(MaxSlot), TRUE, <<PlainItem(k), PlainItem(k + 1)>>) :
            k \in 0..(MaxSlot - 2)}
    \cup {Summary(Slot(MaxSlot), a, << >>) : a \in BOOLEAN}

\* the view over the Mid records of some day, its timeline not yet built
\* renderSummaryTimeline: the timeline data are built from the summaries
ApplyBuildSummaryTimelineData ==
    /\ call.fn = "-"
    /\ call' = [fn |-> "buildSummaryTimelineData", arg |-> call.arg,
                out |-> buildSummaryTimelineData(call.arg)]
    /\ UNCHANGED <<config, svars, host, day, clock, last, streak, begun, apps, unreadable,
                   todoData, _behaviorUsageCache>>

SpecView ==
    /\ Begin({[t \in Tiers |-> TRUE]}, Plain, "embedded", {NoTodoData},
             {[fn |-> "-", arg |-> x, out |-> << >>] :
                 x \in SeqsUpTo(Summaries, MaxSummaries)})
    /\ [][\/ ApplyBuildSummaryTimelineData]_vars

\* ---------------------------------------------------------------------- C28
Built == call.fn = "buildSummaryTimelineData"

\* the timeline entries handed to the view, each with the record it is of
RawItems ==
    UNION {{[s |-> call.arg[i], item |-> call.arg[i].activity_timeline.items[j]] :
               j \in 1..Len(call.arg[i].activity_timeline.items)} :
           i \in {n \in 1..Len(call.arg) : call.arg[n].activity_timeline.isArray}}

LanesGiven == {Lane(x.item) : x \in {y \in RawItems : y.item.label # ""}}

ItemsOf(L) == {x \in RawItems : x.item.label # "" /\ Lane(x.item) = L}

Timed(x) == x.item.start_time.given /\ x.item.end_time.given

StartOf(x) ==
    IF Timed(x)
    THEN parseTimeToMinute(x.item.start_time)
    ELSE Max(0, parseTimeToMinute(x.s.timestamp) - x.item.minutes)

EndOf(x) ==
    IF Timed(x)
    THEN parseTimeToMinute(x.item.end_time)
    ELSE parseTimeToMinute(x.s.timestamp)

\* the entry is one Base window: it spans baseMinutes and states no minutes
IsWindow(x) ==
    /\ Timed(x)
    /\ StartOf(x) >= 0
    /\ EndOf(x) - StartOf(x) = baseMinutes
    /\ x.item.minutes = 0

Shown(L) == \E p \in 1..Len(call.out.lanes) : call.out.lanes[p].filterKey = L

SegmentsOf(L) ==
    UNION {{call.out.lanes[p].segments[q] :
               q \in 1..Len(call.out.lanes[p].segments)} :
           p \in {n \in 1..Len(call.out.lanes) : call.out.lanes[n].filterKey = L}}

Counted(x) ==
    IF Timed(x)
    THEN /\ StartOf(x) >= 0
         /\ EndOf(x) > StartOf(x)
         /\ (IF x.item.minutes # 0 THEN x.item.minutes
             ELSE EndOf(x) - StartOf(x)) >= 3
    ELSE /\ x.item.minutes >= 3
         /\ x.s.timestamp.given
         /\ EndOf(x) >= 0

TimeText(minute) == [given |-> TRUE, h |-> minute \div 60, m |-> minute % 60]

\* the merged activities of the view, and the same activities as the
\* timeline of one record
EntriesOf(summaries) == Merged(SortedByStart(AllActivities(summaries)))

AsTimeline(entries) ==
    <<Summary(NoTime, TRUE,
              [i \in 1..Len(entries) |->
                  [label |-> entries[i].label,
                   category_type |-> entries[i].laneKey.categoryType,
                   subtasks |-> entries[i].subtasks,
                   start_time |-> TimeText(entries[i].startMinute),
                   end_time |-> TimeText(entries[i].endMinute),
                   minutes |-> entries[i].minutes]])>>

\* C29: aggregating entries that are already the output of the aggregation
\* gives the same entries again, with the same keys, start, end, minutes and
\* subtasks, and so the same lanes.
C29_MergeIdempotent ==
    Built =>
        LET entries == EntriesOf(call.arg)
        IN  /\ EntriesOf(AsTimeline(entries)) = entries
            /\ buildSummaryTimelineData(AsTimeline(entries)) = call.out

\* ---------------------------------------------------------------------- C30
\* the window length of the records a run of tier t reads, in minutes
ChildWindow(t) == IF t = "10min" THEN baseMinutes ELSE IntervalMinutes("10min")

\* C30: in a Mid or Top record persisted from an analysis, the minutes of
\* every timeline or distribution entry are at most the window length of the
\* child tier times the number of child records the run read (at most 10 for
\* a Mid record of five Base records).
C30_MinutesBounded ==
    [][SavesAnswer =>
          \A r \in runs \ runs' :
              LET rec == store'[r.tier][Len(store'[r.tier])]
                  entries == IF r.tier = "10min"
                             THEN Entries(rec.activity_timeline)
                             ELSE Entries(rec.time_distribution)
              IN  \A e \in entries :
                      e.minutes <= ChildWindow(r.tier) * Len(r.children)
      ]_vars

\* ---------------------------------------------------------------------- C31
\* the scheduler where every request to the analysis service eventually
\* returns or fails, every back-off sleep ends and the 100 ms sleep of a
\* waiting stop() ends
\* a stop() that waits looks at the flags every 100 ms and the timers have
\* periods of minutes: once nothing executes, the stop() wakes before the
\* next timer expires
FireLive == Fire /\ ~(stoppers > 0 /\ Drained)

SpecLive ==
    /\ Init
    /\ [][\/ HostStart
          \/ HostStop
          \/ StopWakes
          \/ FireLive
          \/ Returns
          \/ Fails
          \/ Retries]_vars
    /\ \A t \in Tiers :
          WF_vars(\E r \in runs :
                     /\ r.tier = t
                     /\ (RequestReturns(r) \/ RequestFails(r))
                     /\ UNCHANGED host)
    /\ \A t \in Tiers :
          WF_vars(\E r \in runs :
                     r.tier = t /\ SleepEnds(r) /\ UNCHANGED host)
    /\ WF_vars(StopWakes)

\* every run that began ends with the flag of its tier down
RunsEnd == \A t \in Tiers : executing[t] ~> ~executing[t]

\* every stop() that waits returns
StopReturns == \A n \in 1..MaxStoppers : (stoppers = n) ~> (stoppers < n)

\* while a stop() waits no run begins, so that the stop() waits for the runs
\* in flight when it was called and for nothing else
StopWaitsForInFlight ==
    [][(stoppers > 0 /\ Fired) => ~last'.began]_vars

\* C31: provided every request eventually returns or fails, every run that
\* began ends with its tier's flag reset, and every stop() returns, after no
\* more than what is left of the runs in flight when it was called.
C31_RunsEndStopReturns ==
    /\ RunsEnd
    /\ StopReturns
    /\ StopWaitsForInFlight

\* ------------------------------------------------- SummaryStore, on its own
\* a record file of the Mid tier as save() wrote it on some day at some minute
FileOf(d, m) ==
    [day |-> d, minute |-> m, no_change |-> FALSE, skip_reason |-> "",
     raw |-> FALSE, children |-> 0,
     category_type |-> NoContent.category_type,
     category_name |-> NoContent.category_name,
     subtask_name |-> NoContent.subtask_name,
     activity_timeline |-> NoContent.activity_timeline,
     time_distribution |-> NoContent.time_distribution]

\* a store with some record files and one read to be made of it: the count
\* and skip the caller passes and the positions, among the files the read
\* selects, of the files that cannot be read
\* summaryStore.getRecentSummaries('10min', count)
ApplyGetRecentSummaries ==
    /\ call.fn = "-"
    /\ call' = [fn |-> "getRecentSummaries", arg |-> call.arg,
                out |-> getRecentSummaries("10min", call.arg.count,
                                           call.arg.bad)]
    /\ unreadable' = call.arg.bad
    /\ UNCHANGED <<config, svars, host, day, clock, last, streak, begun, apps, todoData,
                   _behaviorUsageCache>>

\* summaryStore.getEarlierSummaries('10min', count, skip)
ApplyGetEarlierSummaries ==
    /\ call.fn = "-"
    /\ call' = [fn |-> "getEarlierSummaries", arg |-> call.arg,
                out |-> getEarlierSummaries("10min", call.arg.count,
                                            call.arg.skip, call.arg.bad)]
    /\ unreadable' = call.arg.bad
    /\ UNCHANGED <<config, svars, host, day, clock, last, streak, begun, apps, todoData,
                   _behaviorUsageCache>>

SpecStore ==
    /\ enabled = [t \in Tiers |-> TRUE]
    /\ hasComparer = TRUE
    /\ env = [shots |-> ShotLists, gates |-> {TRUE}, saves |-> {TRUE},
              budget |-> 0, track |-> FALSE, texts |-> PlainTexts,
              faults |-> {"rejected"}, reads |-> {"ok", "corrupt"},
              todo |-> {TRUE}, max_retries |-> MaxRetries, clocked |-> FALSE,
              tally |-> FALSE]
    /\ proc = "embedded"
    /\ isRunning = FALSE
    /\ timer = [t \in Tiers |-> FALSE]
    /\ live = [t \in Tiers |-> 0]
    /\ executing = [t \in Tiers |-> FALSE]
    /\ stats = [t \in Tiers |-> [count |-> 0, errors |-> 0, skipped |-> 0]]
    /\ runs = {}
    /\ stoppers = 0
    /\ store \in {[t \in Tiers |->
                       IF t = "10min"
                       THEN [i \in 1..older |-> FileOf(-1, i)]
                            \o [i \in 1..n |-> FileOf(0, i)]
                       ELSE << >>] : older \in 0..1, n \in 0..MaxFiles}
    /\ day = 0
    /\ isStopping = FALSE
    /\ killArmed = FALSE
    /\ last = NoEvent
    /\ streak = NoStreak
    /\ begun = [t \in Tiers |-> 0]
    /\ scheduler = NewScheduler
    /\ manager = NewManager
    /\ monitor = NewMonitor
    /\ editors = NoEditors
    /\ unreadable = {}
    /\ _behaviorUsageCache = [expiresAt |-> [day |-> -1, minute |-> 0],
                              names |-> {}]
    /\ clock = [minute |-> 0, due |-> [t \in Tiers |-> << >>]]
    /\ todoData = NoTodoData
    /\ call \in {[fn |-> "-", arg |-> x, out |-> << >>] :
                    x \in [count : 0..MaxCount, skip : 0..MaxCount,
                           bad : SUBSET (1..MaxFiles)]}
    /\ [][\/ ApplyGetRecentSummaries
          \/ ApplyGetEarlierSummaries]_vars

\* ---------------------------------------------------------------------- C32
\* the positions, in today's directory, of the files a recent read of count
\* picks when it is to return the latest count
LatestCount(granularity, count) ==
    LET files == TodayFiles(granularity)
    IN  SubSeq(files, Max(1, Len(files) - count + 1), Len(files))

\* C32: getRecentSummaries(tier, count) returns at most count records for
\* every count >= 0, a count of 0 included, and what it returns are the
\* readable records among the latest count files of today's directory of
\* the tier, in ascending order of time.
C32_AtMostCount ==
    call.fn = "getRecentSummaries" =>
        /\ Len(call.out) <= call.arg.count
        /\ call.out = ReadRecords(LatestCount("10min", call.arg.count),
                                  call.arg.bad)
        /\ \A i \in 1..Len(call.out) : call.out[i].day = day
        /\ \A i \in 1..(Len(call.out) - 1) :
               call.out[i].minute < call.out[i + 1].minute

\* ---------------------------------------------------------------------
\* C40
\* ---------------------------------------------------------------------

\* The records getRecentSummaries returns on the store the call was made on.
Recent(count) == getRecentSummaries("10min", count, call.arg.bad)

FileRead(record) == <<record.day, record.minute>>

FilesOf(records) == {FileRead(records[i]) : i \in 1..Len(records)}

\* C40: for one day and tier with every record file readable and skip >= 1,
\* getEarlierSummaries(tier, count, skip) and getRecentSummaries(tier, skip)
\* have no record in common, every record of the former is older than every
\* record of the latter, and the former followed by the latter is
\* getRecentSummaries(tier, count + skip).
C40_EarlierThenRecent ==
    (/\ call.fn = "getEarlierSummaries"
     /\ call.arg.skip >= 1
     /\ call.arg.bad = {}) =>
        /\ FilesOf(call.out) \cap FilesOf(Recent(call.arg.skip)) = {}
        /\ \A i \in 1..Len(call.out) :
               \A j \in 1..Len(Recent(call.arg.skip)) :
                   call.out[i].minute < Recent(call.arg.skip)[j].minute
        /\ call.out \o Recent(call.arg.skip)
               = Recent(call.arg.count + call.arg.skip)

\* An earlier window and a recent window that are both non-empty, with
\* files older than both left out.
C40_Witness ==
    /\ call.fn = "getEarlierSummaries"
    /\ call.arg.skip >= 1
    /\ call.arg.bad = {}
    /\ Len(call.out) >= 1
    /\ Len(Recent(call.arg.skip)) >= 1
    /\ Len(call.out) + Len(Recent(call.arg.skip))
           < Len(TodayFiles("10min"))

\* ---------------------------------------------------------------------
\* C33
\* ---------------------------------------------------------------------

CounterNames == {"count", "errors", "skipped"}

\* the sum of the three counters of tier t
Counted33(t, s) == s[t].count + s[t].errors + s[t].skipped

\* the runs of tier t suspended in generate()
Suspended(t) == Cardinality({r \in runs : r.tier = t})

\* in this step no counter went down, and over all tiers at most one counter
\* moved, by exactly one
OneCounterByOne ==
    /\ \A t \in Tiers : \A c \in CounterNames : stats'[t][c] >= stats[t][c]
    /\ \/ stats' = stats
       \/ \E t \in Tiers : \E c \in CounterNames : stats' = Bump(t, c)

\* a counter of tier t moves only at the end of a run of tier t: in the fire
\* that began the run, or when the run comes back from generate()
OnlyRunsCount ==
    \A t \in Tiers :
        stats'[t] # stats[t] =>
            \/ Fired /\ last'.tier = t /\ last'.began /\ Suspended(t) = 0
            \/ /\ last'.kind \in {"response", "failure"}
               /\ last'.tier = t
               /\ \E r \in runs : r.tier = t /\ r \notin runs'

\* every run whose fire was counted has moved at most one counter: the runs
\* still in flight have moved none
AtMostFires ==
    \A t \in Tiers : Counted33(t, stats) + Suspended(t) <= begun[t]

\* C33: for each tier, a timer fire changes at most one of the tier's counters
\* count, errors and skipped, by exactly 1, no counter ever decreases, and
\* count + errors + skipped never exceeds the number of the tier's timer
\* fires that found it idle and allowed.
C33_CountersBounded ==
    /\ [][OneCounterByOne /\ OnlyRunsCount]_vars
    /\ []AtMostFires

\* A tier with a summary counted, a failure or a skip counted, and a run that
\* ended without counting anything.
C33_Witness ==
    \E t \in Tiers :
        /\ stats[t].count >= 1
        /\ stats[t].errors + stats[t].skipped >= 1
        /\ begun[t] > Counted33(t, stats) + Suspended(t)

\* ---------------------------------------------------------------------
\* C34
\* ---------------------------------------------------------------------

\* no tier has two repeating timers armed
OneTimerPerTier == \A t \in Tiers : live[t] <= 1

\* the step was a call of start()
Started == last'.kind = "start"

\* start() on a running scheduler, one whose stop() is draining included,
\* arms nothing
RunningStartArmsNothing ==
    (Started /\ isRunning) => (live' = live /\ timer' = timer)

\* start() on a scheduler that is not running and has no stop() pending arms
\* one timer per enabled tier and begins no run
StoppedStartArmsOne ==
    (Started /\ ~isRunning /\ stoppers = 0) =>
        /\ \A t \in Tiers : live'[t] = (IF enabled[t] THEN 1 ELSE 0)
        /\ runs' = runs
        /\ executing' = executing
        /\ stats' = stats

\* C34: at most one repeating timer per tier is ever armed: start() on a
\* scheduler that is running, one whose stop() is still draining included,
\* arms nothing, and a start() issued after stop() has returned arms
\* exactly one timer per enabled tier and starts no run immediately.
C34_OneTimerPerTier ==
    /\ []OneTimerPerTier
    /\ [][RunningStartArmsNothing /\ StoppedStartArmsOne]_vars

\* ---------------------------------------------------------------------
\* auto_screenshot: Scheduler
\* ---------------------------------------------------------------------

\* what the summary service owns: untouched by the other components
summaryService == <<config, svars, host, day, clock, streak, begun, probe>>

\* executeTask() up to its first await: the two guards, the flag, and the
\* call of screenshot.captureAll()
executeTask(s, allowed) ==
    IF s.isExecuting
    THEN s
    ELSE IF ~allowed
    THEN s
    ELSE [s EXCEPT !.isExecuting = TRUE,
                   !.tasks = @ \cup {[id |-> s.started + 1,
                                      pc |-> "captureAll", left |-> 0]},
                   !.started = @ + 1]

\* the event of a call of executeTask
TaskEvent(kind, allowed) ==
    [Event(kind, "-") EXCEPT !.idle = ~scheduler.isExecuting,
                             !.allowed = allowed,
                             !.began = scheduler'.started > scheduler.started]

\* Scheduler.start(): one task at once, then the repeating timer
SchedulerStart ==
    /\ scheduler.started < MaxTasks
    /\ \E allowed \in BOOLEAN :
          /\ IF scheduler.isRunning
             THEN scheduler' = scheduler
             ELSE /\ scheduler.live < MaxLive
                  /\ scheduler' =
                        [executeTask([scheduler EXCEPT !.isRunning = TRUE],
                                     allowed)
                            EXCEPT !.intervalId = TRUE, !.live = @ + 1]
          /\ last' = [TaskEvent("Scheduler.start", allowed)
                         EXCEPT !.idle = ~scheduler.isRunning]
    /\ UNCHANGED <<summaryService, manager, monitor, editors>>

\* Scheduler.stop() from its call to its first await, or to its return
SchedulerStop ==
    /\ IF ~scheduler.isRunning
       THEN /\ scheduler' = scheduler
            /\ last' = Event("Scheduler.stopReturn", "-")
       ELSE LET cleared == [scheduler EXCEPT
                               !.intervalId = FALSE,
                               !.live = IF scheduler.intervalId
                                        THEN @ - 1 ELSE @]
            IN  IF ~scheduler.isExecuting
                THEN /\ scheduler' = [cleared EXCEPT !.isRunning = FALSE]
                     /\ last' = [Event("Scheduler.stopReturn", "-")
                                    EXCEPT !.idle = TRUE]
                ELSE /\ scheduler.stoppers < MaxStoppers
                     /\ scheduler' = [cleared EXCEPT !.stoppers = @ + 1]
                     /\ last' = [Event("Scheduler.stopCall", "-")
                                    EXCEPT !.idle = TRUE]
    /\ UNCHANGED <<summaryService, manager, monitor, editors>>

\* a suspended stop() wakes from its 100 ms sleep and finds isExecuting false
SchedulerStopWakes ==
    /\ scheduler.stoppers > 0
    /\ ~scheduler.isExecuting
    /\ scheduler' = [scheduler EXCEPT !.isRunning = FALSE, !.stoppers = @ - 1]
    /\ last' = Event("Scheduler.stopWake", "-")
    /\ UNCHANGED <<summaryService, manager, monitor, editors>>

\* a repeating timer armed by start() expires and calls executeTask
SchedulerFire ==
    /\ scheduler.live > 0
    /\ scheduler.started < MaxTasks
    /\ \E allowed \in BOOLEAN :
          /\ scheduler' = executeTask(scheduler, allowed)
          /\ last' = TaskEvent("Scheduler.fire", allowed)
    /\ UNCHANGED <<summaryService, manager, monitor, editors>>

\* the finally block of executeTask: the task is over
Finished(task, counted) ==
    [scheduler EXCEPT !.isExecuting = FALSE,
                      !.tasks = @ \ {task},
                      !.executeCount = IF counted THEN @ + 1 ELSE @]

\* captureAll() resolves: without a display the task returns, otherwise the
\* first storage.save is awaited
CaptureResolves ==
    /\ \E task \in scheduler.tasks : \E captures \in 0..MaxDisplays :
          /\ task.pc = "captureAll"
          /\ scheduler' =
                IF captures = 0
                THEN Finished(task, FALSE)
                ELSE [scheduler EXCEPT
                         !.tasks = (@ \ {task})
                                   \cup {[task EXCEPT !.pc = "save",
                                                      !.left = captures]}]
    /\ last' = Event("captured", "-")
    /\ UNCHANGED <<summaryService, manager, monitor, editors>>

\* captureAll() rejects: catch block, then finally
CaptureRejects ==
    /\ \E task \in scheduler.tasks :
          /\ task.pc = "captureAll"
          /\ scheduler' = Finished(task, FALSE)
    /\ last' = [Event("captured", "-") EXCEPT !.threw = TRUE]
    /\ UNCHANGED <<summaryService, manager, monitor, editors>>

\* storage.save of one capture resolves, or rejects into the inner catch
\* block; after the last capture the task is counted and ends
SaveSettles ==
    /\ \E task \in scheduler.tasks : \E saveOk \in BOOLEAN :
          /\ task.pc = "save"
          /\ scheduler' =
                IF task.left = 1
                THEN Finished(task, TRUE)
                ELSE [scheduler EXCEPT
                         !.tasks = (@ \ {task})
                                   \cup {[task EXCEPT !.left = @ - 1]}]
          /\ last' = [Event("saved", "-") EXCEPT !.saveOk = saveOk]
    /\ UNCHANGED <<summaryService, manager, monitor, editors>>

\* the screenshot scheduler embedded by a host that may call start() and
\* stop() at any time
SpecScheduler ==
    /\ Init
    /\ [][\/ SchedulerStart
          \/ SchedulerStop
          \/ SchedulerStopWakes
          \/ SchedulerFire
          \/ CaptureResolves
          \/ CaptureRejects
          \/ SaveSettles]_vars

\* ---------------------------------------------------------------------
\* C35
\* ---------------------------------------------------------------------

\* no two capture-and-save tasks are in flight at once
OneTask == Cardinality(scheduler.tasks) <= 1

\* a call of executeTask, from the timer or from start(), that finds a task
\* in flight begins none
BusySkips ==
    (/\ last'.kind \in {"Scheduler.start", "Scheduler.fire"}
     /\ scheduler.tasks # {}) => scheduler'.tasks = scheduler.tasks

\* a stop() that has resolved leaves no task in flight
StopAfterTask ==
    last.kind \in {"Scheduler.stopReturn", "Scheduler.stopWake"}
        => scheduler.tasks = {}

\* C35: in the screenshot Scheduler executeTask never runs concurrently with
\* itself: a timer fire that arrives while a capture-and-save task is in
\* flight, the task begun by start() included, is skipped, and stop()
\* resolves only after the task in flight has completed.
C35_OneTaskStopWaits ==
    /\ []OneTask
    /\ [][BusySkips]_vars
    /\ []StopAfterTask

\* ---------------------------------------------------------------------
\* electron-app: ServiceManager
\* ---------------------------------------------------------------------
\* A child is [name, live, exit, sigterm, sigkill]: live, the process runs;
\* exit, the 'exit' event has been emitted; sigterm and sigkill,
\* kill() has been called with the signal. A child emits 'exit' once, when
\* its process ends. It emits 'error' when it cannot be spawned, on the next
\* tick and before any other callback, and when kill() cannot deliver a
\* signal, inside the call of kill(); after an 'error' the 'exit' event may or
\* may not follow (Node.js, child_process, event 'error').

\* the listeners of 'exit' and of 'error' that startService installs: both
\* clear the entry of the child's service name
Cleared(m, c) ==
    [m EXCEPT !.processes[m.children[c].name] = 0,
              !.running[m.children[c].name] = FALSE]

\* child.kill(signal): the call is recorded; a signal that cannot be
\* delivered makes kill() emit 'error'
Kill(m, c, signal, delivered) ==
    LET sent == IF signal = "SIGTERM"
                THEN [m EXCEPT !.children[c].sigterm = TRUE]
                ELSE [m EXCEPT !.children[c].sigkill = TRUE]
    IN  IF delivered \/ ~m.children[c].live
        THEN sent
        ELSE Cleared(sent, c)

\* startService(name) with the outcome of spawn(): "ok"; "error", the child
\* cannot be spawned and emits 'error'; "refused", the script is missing or
\* spawn() throws
startService(m, name, spawned) ==
    IF m.processes[name] # 0 \/ spawned = "refused"
    THEN m
    ELSE LET c == Len(m.children) + 1
             child == [name |-> name, live |-> spawned = "ok",
                       exit |-> FALSE,
                       sigterm |-> FALSE, sigkill |-> FALSE]
             begun_ == [m EXCEPT !.children = Append(@, child),
                                 !.processes[name] = c,
                                 !.running[name] = TRUE]
         IN  IF spawned = "ok" THEN begun_ ELSE Cleared(begun_, c)

\* stopServiceOf(name) up to the promise it returns: the timeout is armed, the
\* 'exit' listener installed, SIGTERM sent; id names the promise, all the
\* stopAll call it belongs to (0 for none)
stopServiceOf(m, name, id, all, delivered) ==
    LET c == m.processes[name]
    IN  IF c = 0
        THEN [m EXCEPT !.settled = @ \cup {[kind |-> "stopService", id |-> id,
                                            value |-> FALSE]}]
        ELSE Kill([m EXCEPT !.stops = @ \cup {[id |-> id, child |-> c,
                                                timer |-> TRUE, all |-> all]}],
                  c, "SIGTERM", delivered)

Spawns == {"ok", "error", "refused"}

\* the manager at the start of a callback: nothing settled yet
Fresh == [manager EXCEPT !.settled = {}]

StartService ==
    /\ \E name \in Services : \E spawned \in Spawns :
          /\ Len(manager.children) < MaxChildren
          /\ manager' = startService(Fresh, name, spawned)
          /\ last' = Event("startService", name)
    /\ UNCHANGED <<summaryService, scheduler, monitor, editors>>

\* startAll(): each service that has no child is started
StartAll ==
    /\ Len(manager.children) + 2 <= MaxChildren
    /\ \E first \in Spawns : \E second \in Spawns :
          manager' = startService(startService(Fresh, "screenshot", first),
                                  "summary", second)
    /\ last' = Event("startAll", "-")
    /\ UNCHANGED <<summaryService, scheduler, monitor, editors>>

StopService ==
    /\ manager.calls < MaxStops
    /\ \E name \in Services : \E delivered \in BOOLEAN :
          /\ manager' = [stopServiceOf(Fresh, name, manager.calls + 1, 0,
                                     delivered)
                            EXCEPT !.calls = @ + 1]
          /\ last' = Event("stopService", name)
    /\ UNCHANGED <<summaryService, scheduler, monitor, editors>>

\* stopAll(): stopService for each service that has a child, then
\* Promise.all of the promises; without any it resolves at once
StopAll ==
    /\ manager.calls < MaxStops
    /\ \E first \in BOOLEAN : \E second \in BOOLEAN :
          LET id == manager.calls + 1
              was == {manager.processes[n] : n \in Services} \ {0}
              one == IF manager.processes["screenshot"] # 0
                     THEN stopServiceOf(Fresh, "screenshot", id, id, first)
                     ELSE Fresh
              two == IF one.processes["summary"] # 0
                     THEN stopServiceOf(one, "summary", id, id, second)
                     ELSE one
          IN  manager' =
                 IF was = {}
                 THEN [two EXCEPT !.calls = id,
                                  !.settled = @ \cup {[kind |-> "stopAll",
                                                       id |-> id,
                                                       value |-> TRUE]}]
                 ELSE [two EXCEPT !.calls = id,
                                  !.alls = @ \cup {[id |-> id, was |-> was]}]
    /\ last' = Event("stopAll", "-")
    /\ UNCHANGED <<summaryService, scheduler, monitor, editors>>

\* the 10 s timeout of a stopService call expires: SIGKILL
StopTimeout ==
    /\ \E s \in manager.stops : \E delivered \in BOOLEAN :
          /\ s.timer
          /\ manager' =
                Kill([Fresh EXCEPT !.stops = (@ \ {s})
                                      \cup {[s EXCEPT !.timer = FALSE]}],
                     s.child, "SIGKILL", delivered)
          /\ last' = Event("stopTimeout", manager.children[s.child].name)
    /\ UNCHANGED <<summaryService, scheduler, monitor, editors>>

\* a faulty variant: the 'exit' listener of stopService is not bound to its
\* child
ExitListeners_Any(m, c) == m.stops

\* the stopService calls whose 'exit' listener is on child c
ExitListeners(m, c) == {s \in m.stops : s.child = c}

\* a child's process ends, by itself or by a signal, and 'exit' is emitted;
\* a child that could not be spawned may emit 'exit' after its 'error'.
\* The listener of startService runs, then the listeners of the stopService
\* calls on the child (clearTimeout, resolve), then the stopAll calls all of
\* whose promises are resolved
ChildExits ==
    /\ \E c \in 1..Len(manager.children) :
          /\ ~manager.children[c].exit
          /\ LET heard == ExitListeners(Fresh, c)
                 stops == Fresh.stops \ heard
                 over == {a \in Fresh.alls : \A s \in stops : s.all # a.id}
             IN  manager' =
                    [Cleared(Fresh, c) EXCEPT
                        !.children[c].live = FALSE,
                        !.children[c].exit = TRUE,
                        !.stops = stops,
                        !.alls = @ \ over,
                        !.settled = {[kind |-> "stopService", id |-> s.id,
                                      value |-> TRUE] : s \in heard}
                                    \cup {[kind |-> "stopAll", id |-> a.id,
                                            value |-> TRUE] : a \in over}]
          /\ last' = Event("exit", manager.children[c].name)
    /\ UNCHANGED <<summaryService, scheduler, monitor, editors>>

\* the ServiceManager of the host app, whose handlers may be called in any
\* order
SpecManager ==
    /\ Init
    /\ [][\/ StartService
          \/ StartAll
          \/ StopService
          \/ StopAll
          \/ StopTimeout
          \/ ChildExits]_vars

\* a timeout that stays armed expires
SpecManagerFair == SpecManager /\ WF_vars(StopTimeout)

\* ---------------------------------------------------------------------
\* C36
\* ---------------------------------------------------------------------

\* the children of a service whose process runs
LiveChildren(name) ==
    {c \in 1..Len(manager.children) :
        manager.children[c].name = name /\ manager.children[c].live}

\* C36: ServiceManager keeps at most one live child process per service
\* name, and status[name].running is true exactly when processes[name]
\* refers to a child that has not exited, in every ordering of startService,
\* stopService and the children's 'exit' and 'error' events, events of an
\* earlier child that arrive after a newer child was started included.
C36_OneChildPerService ==
    \A name \in Services :
        /\ Cardinality(LiveChildren(name)) <= 1
        /\ manager.running[name]
               <=> (/\ manager.processes[name] # 0
                    /\ ~manager.children[manager.processes[name]].exit)

\* ---------------------------------------------------------------------
\* C37
\* ---------------------------------------------------------------------

Exit37(c) == manager.children[c].exit

\* the promises of stopService calls that this step resolved with true
ResolvedStops ==
    {s \in manager.stops :
        /\ \A t \in manager'.stops : t.id # s.id \/ t.child # s.child
        /\ [kind |-> "stopService", id |-> s.id, value |-> TRUE]
               \in manager'.settled}

\* stopService on a service that has a child calls kill('SIGTERM') on it and
\* leaves a pending promise with its timeout armed
TermSent ==
    \A name \in Services :
        (/\ last'.kind = "stopService"
         /\ last'.tier = name
         /\ manager.processes[name] # 0) =>
            /\ manager'.children[manager.processes[name]].sigterm
            /\ \E s \in manager'.stops :
                  /\ s.child = manager.processes[name]
                  /\ s.id = manager'.calls
                  /\ s.timer

\* SIGKILL is sent by the timeout, to a child that has not exited
KillByTimeout ==
    \A c \in 1..Len(manager.children) :
        (manager'.children[c].sigkill /\ ~manager.children[c].sigkill) =>
            /\ last'.kind = "stopTimeout"
            /\ ~Exit37(c)
            /\ manager.children[c].sigterm

\* while a stopService promise is pending its child has not exited, and the
\* timeout is armed unless it has expired and SIGKILL was sent
TimeoutStaysArmed ==
    \A s \in manager.stops :
        /\ ~Exit37(s.child)
        /\ s.timer \/ manager.children[s.child].sigkill

\* a stopService promise leaves the pending ones only resolved with true, in
\* the step of its child's 'exit' event
ResolvedAtExit ==
    \A s \in manager.stops :
        (\A t \in manager'.stops : t.id # s.id \/ t.child # s.child) =>
            /\ s \in ResolvedStops
            /\ last'.kind = "exit"
            /\ manager'.children[s.child].exit

\* a stopAll promise is resolved only when every child that a service had
\* at the call has exited
AllAtLastExit ==
    \A a \in manager.alls :
        a \notin manager'.alls =>
            /\ [kind |-> "stopAll", id |-> a.id, value |-> TRUE]
                   \in manager'.settled
            /\ \A c \in a.was : manager'.children[c].exit

\* a timeout that is armed expires, unless the child's exit clears it first
TimeoutExpires ==
    \A c \in 1..MaxChildren :
        (\E s \in manager.stops : s.child = c /\ s.timer)
            ~> (/\ c <= Len(manager.children)
                /\ manager.children[c].sigkill \/ manager.children[c].exit)

\* C37: stopService(name) on a running service sends SIGTERM, sends SIGKILL
\* if the child has not exited within 10 seconds, and resolves true only
\* after the child's exit event; stopAll resolves only after every service
\* that was running has exited.
C37_StopsAfterExit ==
    /\ [][TermSent /\ KillByTimeout /\ ResolvedAtExit /\ AllAtLastExit]_vars
    /\ []TimeoutStaysArmed
    /\ TimeoutExpires

\* A stopAll of two running services has just resolved: both children got
\* SIGTERM, one of them SIGKILL after the timeout, and both have exited.
C37_Witness ==
    /\ last.kind = "exit"
    /\ \E x \in manager.settled : x.kind = "stopAll" /\ x.value
    /\ \A name \in Services :
          \E c \in 1..Len(manager.children) :
              /\ manager.children[c].name = name
              /\ manager.children[c].sigterm
              /\ manager.children[c].exit
    /\ \E c \in 1..Len(manager.children) : manager.children[c].sigkill

\* ---------------------------------------------------------------------
\* ai_summary: ActiveWindowMonitor
\* ---------------------------------------------------------------------

_hasChanged(m, current) ==
    IF m._lastWindow = NoWindow THEN FALSE ELSE m._lastWindow # current

_addToHistory(history, windowInfo) ==
    LET pushed == Append(history, windowInfo)
    IN  IF Len(pushed) > MaxHistorySize THEN Tail(pushed) ELSE pushed

\* _poll() up to its await: the guard, the counter, the call of osascript
_poll(m) ==
    IF ~m._running
    THEN m
    ELSE [m EXCEPT !._pollCount = @ + 1, !.polls = @ + 1]

\* the monitor at the start of a callback: nothing emitted yet
Quiet == [monitor EXCEPT !.emitted = {}]

\* ActiveWindowMonitor.start(): one poll at once, then the repeating timer
MonitorStart ==
    /\ monitor.polls < MaxPolls
    /\ monitor' =
          IF monitor._running
          THEN Quiet
          ELSE [_poll([Quiet EXCEPT !._running = TRUE, !._pollCount = 0,
                                    !._errorCount = 0,
                                    !.emitted = {"start"}])
                   EXCEPT !._timer = TRUE, !.live = @ + 1]
    /\ last' = Event("Monitor.start", "-")
    /\ UNCHANGED <<summaryService, scheduler, manager, editors>>

\* ActiveWindowMonitor.stop()
MonitorStop ==
    /\ monitor' =
          IF ~monitor._running
          THEN Quiet
          ELSE [Quiet EXCEPT !._running = FALSE,
                             !._timer = FALSE,
                             !.live = IF monitor._timer THEN @ - 1 ELSE @,
                             !.emitted = {"stop"}]
    /\ last' = Event("Monitor.stop", "-")
    /\ UNCHANGED <<summaryService, scheduler, manager, editors>>

\* the repeating timer expires and calls _poll()
MonitorTick ==
    /\ monitor.live > 0
    /\ monitor.polls < MaxPolls
    /\ monitor._pollCount < MaxPolls
    /\ monitor' = _poll(Quiet)
    /\ last' = Event("Monitor.tick", "-")
    /\ UNCHANGED <<summaryService, scheduler, manager, editors>>

\* getActiveWindow() resolves with current and _poll() goes on after its
\* await
PollResolves ==
    /\ monitor.polls > 0
    /\ \E current \in {"editor", "browser"} :
          LET m == [Quiet EXCEPT !.polls = @ - 1]
          IN  monitor' =
                 IF _hasChanged(m, current)
                 THEN [m EXCEPT !._lastWindow = current,
                                !._history = _addToHistory(@, current),
                                !.emitted = {"poll", "change"}]
                 ELSE IF m._lastWindow = NoWindow
                 THEN [m EXCEPT !._lastWindow = current,
                                !._history = _addToHistory(@, current),
                                !.emitted = {"poll"}]
                 ELSE [m EXCEPT !.emitted = {"poll"}]
    /\ last' = Event("Monitor.polled", "-")
    /\ UNCHANGED <<summaryService, scheduler, manager, editors>>

\* getActiveWindow() rejects: the catch block of _poll()
PollRejects ==
    /\ monitor.polls > 0
    /\ monitor' = [Quiet EXCEPT !.polls = @ - 1, !._errorCount = @ + 1,
                                !.emitted = {"error"}]
    /\ last' = [Event("Monitor.polled", "-") EXCEPT !.threw = TRUE]
    /\ UNCHANGED <<summaryService, scheduler, manager, editors>>

\* the window monitor with a host that may call start() and stop() at any
\* time
SpecMonitor ==
    /\ Init
    /\ [][\/ MonitorStart
          \/ MonitorStop
          \/ MonitorTick
          \/ PollResolves
          \/ PollRejects]_vars

\* ---------------------------------------------------------------------
\* C38
\* ---------------------------------------------------------------------

\* C38: after ActiveWindowMonitor.stop() has returned, and until the monitor
\* is started again, no 'poll' or 'change' event is emitted and nothing is
\* appended to the history, a poll that was awaiting the active-window query
\* when stop() was called included.
C38_SilentAfterStop ==
    [][~monitor._running =>
          /\ monitor'.emitted \cap {"poll", "change"} = {}
          /\ monitor'._history = monitor._history]_vars

\* ---------------------------------------------------------------------
\* the two writers of todos.json
\* ---------------------------------------------------------------------
\* TodoWriter (summary service) and TodoStore (host app) run in two
\* processes; each call reads the whole file, changes the list in memory and
\* writes the whole file, so between the readFileSync and the writeFileSync
\* of one process the other process may read and write.

\* TodoStore.createTodo on the list read: the new task is pushed, no lookup
createTodo(todos, title) == Append(todos, [title |-> title, children |-> << >>])

\* TodoStore.deleteTodo on the list read: the task with the id is spliced
\* out; an id is modelled by the title of the task it names, unique here
deleteTodo(todos, todoId) ==
    SelectSeq(todos, LAMBDA t : t.title # todoId)

\* _readJSON(this.todosFile) at the head of _ensureTask
WriterReads ==
    /\ editors.writer.pc = "idle"
    /\ Len(todoData.todos) < MaxTodos
    /\ \E op \in {[fn |-> "_ensureTask", title |-> "review", child |-> c] :
                     c \in {"", "draft"}} :
          editors' = [editors EXCEPT !.writer.pc = "read",
                                     !.writer.todos = todoData.todos,
                                     !.writer.op = op]
    /\ last' = Event("TodoWriter.read", "-")
    /\ UNCHANGED <<config, svars, host, day, clock, streak, begun, probe,
                   scheduler, manager, monitor>>

\* _writeJSON(this.todosFile, todos) at the end of _ensureTask
WriterWrites ==
    /\ editors.writer.pc = "read"
    /\ todoData' =
          [todoData EXCEPT !.todos =
              _ensureTask([todos |-> editors.writer.todos,
                           behaviors |-> todoData.behaviors],
                          editors.writer.op.title,
                          editors.writer.op.child).todos]
    /\ editors' = [editors EXCEPT !.writer.pc = "idle",
                                  !.writer.made = @ \cup {editors.writer.op}]
    /\ last' = Event("TodoWriter.write", "-")
    /\ UNCHANGED <<config, svars, host, day, clock, streak, begun, call,
                   unreadable, _behaviorUsageCache, scheduler, manager,
                   monitor>>

\* getAllTodos() at the head of createTodo and of deleteTodo; a deleteTodo
\* that does not find the id returns without writing
StoreReads ==
    /\ editors.store.pc = "idle"
    /\ Len(todoData.todos) < MaxTodos
    /\ \E op \in {[fn |-> "createTodo", title |-> "errand", child |-> ""],
                  [fn |-> "deleteTodo", title |-> "report", child |-> ""]} :
          /\ op.fn = "deleteTodo" => HasTitle(todoData.todos, op.title)
          /\ editors' = [editors EXCEPT !.store.pc = "read",
                                        !.store.todos = todoData.todos,
                                        !.store.op = op]
    /\ last' = Event("TodoStore.read", "-")
    /\ UNCHANGED <<config, svars, host, day, clock, streak, begun, probe,
                   scheduler, manager, monitor>>

\* _writeJSON(this.todosFile, todos) at the end of createTodo and deleteTodo
StoreWrites ==
    /\ editors.store.pc = "read"
    /\ todoData' =
          [todoData EXCEPT !.todos =
              IF editors.store.op.fn = "createTodo"
              THEN createTodo(editors.store.todos, editors.store.op.title)
              ELSE deleteTodo(editors.store.todos, editors.store.op.title)]
    /\ editors' =
          [editors EXCEPT
              !.store.pc = "idle",
              !.store.made = IF editors.store.op.fn = "createTodo"
                             THEN @ \cup {editors.store.op} ELSE @,
              !.store.removed = IF editors.store.op.fn = "deleteTodo"
                                THEN @ \cup {editors.store.op} ELSE @]
    /\ last' = Event("TodoStore.write", "-")
    /\ UNCHANGED <<config, svars, host, day, clock, streak, begun, call,
                   unreadable, _behaviorUsageCache, scheduler, manager,
                   monitor>>

\* the two processes over a todos.json that is empty or holds the task
\* "report"
SpecEditors ==
    /\ Begin({[t \in Tiers |-> TRUE]}, Plain, "running",
             {NoTodoData,
              [todos |-> <<[title |-> "report", children |-> << >>]>>,
               behaviors |-> << >>]},
             {NoCall})
    /\ [][\/ WriterReads
          \/ WriterWrites
          \/ StoreReads
          \/ StoreWrites]_vars

\* ---------------------------------------------------------------------
\* C39
\* ---------------------------------------------------------------------

\* the stored list shows the call: the task (and the subtask) it made is
\* there, the task it deleted is not
Shows(todos, op) ==
    IF op.fn = "deleteTodo"
    THEN ~HasTitle(todos, op.title)
    ELSE \E i \in 1..Len(todos) :
            /\ todos[i].title = op.title
            /\ op.child # "" => HasChild(todos[i], op.child)

\* C39: no taxonomy update is lost between the two writers of the taxonomy
\* files: when a write-back of the TodoWriter and a mutation of the
\* TodoStore have both completed, in any interleaving of their file reads
\* and file writes, the stored taxonomy shows the effect of both.
C39_NoLostUpdate ==
    (editors.writer.pc = "idle" /\ editors.store.pc = "idle") =>
        \A op \in editors.writer.made \cup editors.store.made
                  \cup editors.store.removed :
            Shows(todoData.todos, op)

====
